---- MODULE Spec2Model ----
(***************************************************************************)
(* Verification model of the HeartBeat repository: the per-address         *)
(* admission table (ConnectionManager), the heartbeat monitors             *)
(* (EnhancedHeartbeat, ClientHeartbeat), the ping rate limiter             *)
(* (ConnectionState) and the connection handler (handleWebSocket).         *)
(*                                                                         *)
(* The module holds several specifications over one set of variables:     *)
(*   Spec           handleWebSocket invocations with their heartbeat       *)
(*                  goroutines, sharing connManager and activeConnections  *)
(*   FairSpec       Spec with weak fairness of the goroutines' steps       *)
(*   SpecAdmission  tasks calling CheckLimit and Release concurrently,     *)
(*                  one step per statement under the mutex                 *)
(*   SpecRace       every task has one CheckLimit call in flight on the    *)
(*                  same address, starting from the empty table            *)
(*   SpecHeartbeat  one EnhancedHeartbeat or ClientHeartbeat monitor and   *)
(*                  the cancellation of its context                        *)
(*   SpecRateLimit  one ConnectionState observed at the readings of a      *)
(*                  clock                                                  *)
(*   SpecClient     the client's Run and its ClientHeartbeat goroutine     *)
(*   SpecDeprecated the deprecated HeartBeat next to EnhancedHeartbeat      *)
(*   SpecObservers  goroutines calling RateLimitPing on one state at once   *)
(*   SpecRegistry   a ConnectionStateManager and the states it hands out    *)
(*   SpecLinkedList a LinkedList next to the sequence it stands for         *)
(* Each specification leaves the variables of the other parts unchanged.   *)
(***************************************************************************)
EXTENDS Integers, Sequences, FiniteSets, TLC

\* ------------------------------------------------------------------ bounds

\* Largest ceiling a ConnectionManager is constructed with (maxPerIP is the
\* argument of NewConnectionManager).
MaxCeiling == 2

\* Concurrent callers of the ConnectionManager: one more than the largest
\* ceiling, so that the ceiling is always contended.
Tasks == 1..(MaxCeiling + 1)

\* Remote addresses as net/http reports them in Request.RemoteAddr: "IP:port".
IPs == {"10.0.0.1"}
Ports == {"50001", "50002"}
RemoteAddrs == [ip : IPs, port : Ports]

\* Keys of the admission table: ConnectionManager takes any string.
Keys == RemoteAddrs

VARIABLES
    \* ConnectionManager (part_002:146-150)
    connections,   \* map[string]int: a function whose domain is the set of keys present
    maxPerIP,      \* the ceiling
    mu,            \* sync.Mutex: 0 when free, else the task holding it
    \* one record per caller task: where it is inside the method it called
    tpc,           \* position
    targ,          \* the ip argument of the call in flight
    tret,          \* the value the last call returned: "none", "true", "false"
    tseen,         \* the count CheckLimit found right before its increment (-1: none)
    \* one heartbeat monitor run on its own (part_001:55-112, part_000:41-83)
    hbImpl,        \* which function runs: "EnhancedHeartbeat" or "ClientHeartbeat"
    cfgMaxMissed,  \* cfg.MaxMissedPings
    mon,           \* the monitor: its position, missedPings, its metrics, its result
    ctxDone,       \* the owning context is cancelled
    probes,        \* history: the outcome of every conn.Ping so far, oldest first
    \* one ConnectionState and the wall clock (part_002:15-87)
    now,           \* time.Now(), in seconds
    cs,            \* the ConnectionState
    obsRet,        \* per kind, what the latest observation returned: "none", "true", "false"
    obsPrev,       \* per kind, history: what the observation before the latest returned
    obsEarly,      \* per kind, history: the latest observation came before minPingInterval had elapsed
    rejected,      \* per kind, history: some observation so far returned false
    obsAt,         \* per kind, history: the clock reading of the latest observation
    expected,      \* per kind, history: the observations in a row, up to the latest, that each
                   \* came less than minPingInterval after the observation before it
    \* the server: handleWebSocket invocations and their heartbeat goroutines (part_005)
    hpc,           \* per handler, its position in handleWebSocket
    remote,        \* per handler, r.RemoteAddr of the request it serves
    conn,          \* per handler, the WebSocket connection: "none", "open", "closed"
    ctxd,          \* per handler, the connection's ctx is cancelled
    hb,            \* per handler, the monitor its goroutine runs ("off": no goroutine)
    activeConnections, \* the atomic counter the health endpoint reports
    states,        \* ConnectionStateManager.states: connection -> ConnectionState
    exit,          \* per handler, history: where the invocation left: "none" (it has not), "429",
                   \* "handshake", "loop" (an error, a cancellation or a panic ended the loop),
                   \* "timeout" (readTimeout ended the loop, where the specification tells it apart)
    stopped,       \* the ctx passed to Start is cancelled and server.Shutdown has been called
    released,      \* per handler, history: Release calls made by the invocation
    \* the client's Run with its ClientHeartbeat goroutine (Client/client.go:25-104)
    run,           \* Run: its position, the round i, the connection, the ctx it was given
    \* the deprecated HeartBeat next to the full monitor (part_001:118-140)
    ref,           \* an EnhancedHeartbeat monitor fed the same probe outcomes as mon
    \* goroutines calling RateLimitPing on one ConnectionState (part_002:36-54, 276-291)
    csImpl,        \* which RateLimitPing runs: "mutex" (part_002:36) or "plain" (part_002:276)
    csMu,          \* cs.mu: 0 when free, else the goroutine holding it
    opc,           \* per goroutine, its position inside RateLimitPing
    oreg,          \* per goroutine, the value of cs.violations it has loaded
    oearly,        \* per goroutine, history: its test found the ping too early
    \* ConnectionStateManager (part_002:210-246); its map is the variable states
    addrOf,        \* per connection ID in the map, the address of the *ConnectionState stored
    got,           \* per connection ID, the pointer the latest GetOrCreate returned (0: none),
                   \* and history: the observations made through it (counted up to
                   \* maxViolations + 1), a reject seen for the ID
    nextAddr,      \* the address the next allocated ConnectionState gets
    lastCall,      \* history: the latest call on the manager and what it found
    \* LinkedList (part_006)
    ll,            \* the list: head, tail, size and the nodes allocated so far
    abs,           \* history: the abstract sequence the same operations produce
    lret,          \* what the latest operation returned, and what the sequence says it returns
    \* RateLimitedConn (part_002)
    rlc            \* the latest Read: what it returned, and what rlc.Conn.Read did

cmVars == <<connections, maxPerIP>>
taskVars == <<mu, tpc, targ, tret, tseen>>
monVars == <<hbImpl, cfgMaxMissed, mon, ctxDone, probes>>
rateVars == <<now, cs, obsRet, obsPrev, obsEarly, rejected, obsAt, expected>>
srvVars == <<hpc, remote, conn, ctxd, hb, activeConnections, states, exit, released, stopped>>
clientVars == <<run>>
depVars == <<ref>>
obsVars == <<csImpl, csMu, opc, oreg, oearly>>
regVars == <<addrOf, got, nextAddr, lastCall>>
listVars == <<ll, abs, lret>>
readVars == <<rlc>>
extVars == <<clientVars, depVars, obsVars, regVars, listVars, readVars>>
vars == <<cmVars, taskVars, monVars, rateVars, srvVars, extVars>>

NoKey == [ip |-> "", port |-> ""]

\* ------------------------------------------------------- ConnectionManager

\* Go's map read: the zero value for a key that is not present.
Count(m, ip) == IF ip \in DOMAIN m THEN m[ip] ELSE 0

\* m[ip] = v
Put(m, ip, v) == [k \in (DOMAIN m) \cup {ip} |-> IF k = ip THEN v ELSE m[k]]

\* delete(m, ip)
Delete(m, ip) == [k \in (DOMAIN m) \ {ip} |-> m[k]]

EmptyTable == [k \in {} |-> 0]

\* NewConnectionManager(maxPerIP): an empty map and the ceiling.
NewConnectionManager(ceiling) == [connections |-> EmptyTable, maxPerIP |-> ceiling]

\* cm.mu.Lock() returns only when no one holds the mutex.
CanLock_NoMutex(holder) == TRUE
CanLock(holder) == holder = 0

\* CheckLimit's test: cm.connections[ip] >= cm.maxPerIP
LimitReached_OffByOne(m, ip, ceiling) == Count(m, ip) > ceiling
LimitReached(m, ip, ceiling) == Count(m, ip) >= ceiling

\* cm.connections[ip]++
Increment(m, ip) == Put(m, ip, Count(m, ip) + 1)

\* Release's first statement: if cm.connections[ip] > 0 { cm.connections[ip]-- }
Decrement_Unguarded(m, ip) == Put(m, ip, Count(m, ip) - 1)
Decrement(m, ip) == IF Count(m, ip) > 0 THEN Put(m, ip, Count(m, ip) - 1) ELSE m

\* Release's second statement: if cm.connections[ip] == 0 { delete(cm.connections, ip) }
Cleanup_NoDelete(m, ip) == m
Cleanup(m, ip) == IF Count(m, ip) = 0 THEN Delete(m, ip) ELSE m

\* The whole of CheckLimit as one critical section: the result and the new table.
CheckLimit(m, ip, ceiling) ==
    IF LimitReached(m, ip, ceiling)
    THEN [ok |-> FALSE, table |-> m]
    ELSE [ok |-> TRUE, table |-> Increment(m, ip)]

\* The whole of Release as one critical section.
Release_AllAddresses(m, ip) == EmptyTable
Release(m, ip) == Cleanup(Decrement(m, ip), ip)

\* GetConnectionCount
GetConnectionCount(m, ip) == Count(m, ip)

\* --------------------------------------------- concurrent callers, stepwise

\* What the callers of the ConnectionManager leave alone.
TaskFrame == <<monVars, rateVars, srvVars, extVars>>


TaskLocals(t, pc, arg, ret, seen) ==
    /\ tpc' = [tpc EXCEPT ![t] = pc]
    /\ targ' = [targ EXCEPT ![t] = arg]
    /\ tret' = [tret EXCEPT ![t] = ret]
    /\ tseen' = [tseen EXCEPT ![t] = seen]

\* A task calls CheckLimit(ip): it now waits for the mutex.
CallCheckLimit(t, ip) ==
    /\ tpc[t] = "idle"
    /\ TaskLocals(t, "cl_lock", ip, "none", -1)
    /\ UNCHANGED <<connections, maxPerIP, mu>>
    /\ UNCHANGED TaskFrame

\* cm.mu.Lock()
CheckLimitLock(t) ==
    /\ tpc[t] = "cl_lock"
    /\ CanLock(mu)
    /\ mu' = t
    /\ tpc' = [tpc EXCEPT ![t] = "cl_test"]
    /\ UNCHANGED <<connections, maxPerIP, targ, tret, tseen>>
    /\ UNCHANGED TaskFrame

\* if cm.connections[ip] >= cm.maxPerIP { return false }
CheckLimitTest_IncrementFirst(t) ==
    /\ tpc[t] = "cl_test"
    /\ IF LimitReached(connections, targ[t], maxPerIP)
       THEN /\ tret' = [tret EXCEPT ![t] = "false"]
            /\ tpc' = [tpc EXCEPT ![t] = "cl_unlock"]
            /\ connections' = Increment(connections, targ[t])
       ELSE /\ tpc' = [tpc EXCEPT ![t] = "cl_inc"]
            /\ UNCHANGED <<tret, connections>>
    /\ UNCHANGED <<maxPerIP, mu, targ, tseen>>
    /\ UNCHANGED TaskFrame
CheckLimitTest(t) ==
    /\ tpc[t] = "cl_test"
    /\ IF LimitReached(connections, targ[t], maxPerIP)
       THEN /\ tret' = [tret EXCEPT ![t] = "false"]
            /\ tpc' = [tpc EXCEPT ![t] = "cl_unlock"]
       ELSE /\ tpc' = [tpc EXCEPT ![t] = "cl_inc"]
            /\ UNCHANGED tret
    /\ UNCHANGED <<connections, maxPerIP, mu, targ, tseen>>
    /\ UNCHANGED TaskFrame

\* cm.connections[ip]++ ; return true
CheckLimitIncrement(t) ==
    /\ tpc[t] = "cl_inc"
    /\ connections' = Increment(connections, targ[t])
    /\ tseen' = [tseen EXCEPT ![t] = Count(connections, targ[t])]
    /\ tret' = [tret EXCEPT ![t] = "true"]
    /\ tpc' = [tpc EXCEPT ![t] = "cl_unlock"]
    /\ UNCHANGED <<maxPerIP, mu, targ>>
    /\ UNCHANGED TaskFrame

\* the deferred cm.mu.Unlock(): the call returns
CheckLimitUnlock(t) ==
    /\ tpc[t] = "cl_unlock"
    /\ mu' = 0
    /\ tpc' = [tpc EXCEPT ![t] = "idle"]
    /\ targ' = [targ EXCEPT ![t] = NoKey]
    /\ tseen' = [tseen EXCEPT ![t] = -1]
    /\ UNCHANGED <<connections, maxPerIP, tret>>
    /\ UNCHANGED TaskFrame

\* A task calls Release(ip).
CallRelease(t, ip) ==
    /\ tpc[t] = "idle"
    /\ TaskLocals(t, "rl_lock", ip, "none", -1)
    /\ UNCHANGED <<connections, maxPerIP, mu>>
    /\ UNCHANGED TaskFrame

ReleaseLock(t) ==
    /\ tpc[t] = "rl_lock"
    /\ CanLock(mu)
    /\ mu' = t
    /\ tpc' = [tpc EXCEPT ![t] = "rl_dec"]
    /\ UNCHANGED <<connections, maxPerIP, targ, tret, tseen>>
    /\ UNCHANGED TaskFrame

ReleaseDecrement(t) ==
    /\ tpc[t] = "rl_dec"
    /\ connections' = Decrement(connections, targ[t])
    /\ tpc' = [tpc EXCEPT ![t] = "rl_del"]
    /\ UNCHANGED <<maxPerIP, mu, targ, tret, tseen>>
    /\ UNCHANGED TaskFrame

ReleaseCleanup(t) ==
    /\ tpc[t] = "rl_del"
    /\ connections' = Cleanup(connections, targ[t])
    /\ tpc' = [tpc EXCEPT ![t] = "rl_unlock"]
    /\ UNCHANGED <<maxPerIP, mu, targ, tret, tseen>>
    /\ UNCHANGED TaskFrame

ReleaseUnlock(t) ==
    /\ tpc[t] = "rl_unlock"
    /\ mu' = 0
    /\ tpc' = [tpc EXCEPT ![t] = "idle"]
    /\ targ' = [targ EXCEPT ![t] = NoKey]
    /\ UNCHANGED <<connections, maxPerIP, tret, tseen>>
    /\ UNCHANGED TaskFrame

\* A task calls GetConnectionCount(ip).
CallGetConnectionCount(t, ip) ==
    /\ tpc[t] = "idle"
    /\ TaskLocals(t, "gc_lock", ip, "none", -1)
    /\ UNCHANGED <<connections, maxPerIP, mu>>
    /\ UNCHANGED TaskFrame

\* cm.mu.Lock()
GetConnectionCountLock(t) ==
    /\ tpc[t] = "gc_lock"
    /\ CanLock(mu)
    /\ mu' = t
    /\ tpc' = [tpc EXCEPT ![t] = "gc_read"]
    /\ UNCHANGED <<connections, maxPerIP, targ, tret, tseen>>
    /\ UNCHANGED TaskFrame

\* return cm.connections[ip]: the value read is kept in tseen
GetConnectionCountRead(t) ==
    /\ tpc[t] = "gc_read"
    /\ tseen' = [tseen EXCEPT ![t] = GetConnectionCount(connections, targ[t])]
    /\ tpc' = [tpc EXCEPT ![t] = "gc_unlock"]
    /\ UNCHANGED <<connections, maxPerIP, mu, targ, tret>>
    /\ UNCHANGED TaskFrame

\* the deferred cm.mu.Unlock(): the call returns
GetConnectionCountUnlock(t) ==
    /\ tpc[t] = "gc_unlock"
    /\ mu' = 0
    /\ tpc' = [tpc EXCEPT ![t] = "idle"]
    /\ targ' = [targ EXCEPT ![t] = NoKey]
    /\ tseen' = [tseen EXCEPT ![t] = -1]
    /\ UNCHANGED <<connections, maxPerIP, tret>>
    /\ UNCHANGED TaskFrame

\* ------------------------------------------------------ heartbeat monitors

\* Values of cfg.MaxMissedPings the monitors are run with: 1..MaxMissedCfg
\* (DefaultHeartbeatConfig and DefaultClientHeartbeatConfig use 2).
MaxMissedCfg == 2

\* A monitor sends at most MaxPings probes in a run of the model.
MaxPings == 4

\* The round-trip latency, in milliseconds, a successful probe measures.
Latencies == {25}

\* metrics := &HeartbeatMetrics{}; timer := time.NewTimer(cfg.Interval); missedPings := 0
\* pc: "select" (blocked in the select on ctx.Done() and timer.C), "ping" (conn.Ping
\* in flight), "returned". result: "none", "cancelled" (ctx.Err()), "failed"
\* ("max missed pings (%d) exceeded").
NewMonitor ==
    [pc |-> "select", missedPings |-> 0, PingsSent |-> 0, PongsReceived |-> 0,
     FailedPings |-> 0, AvgLatency |-> 0, result |-> "none"]

\* case <-ctx.Done(): return metrics, ctx.Err()
HeartbeatCancelled(m) == [m EXCEPT !.pc = "returned", !.result = "cancelled"]

\* case <-timer.C: fall through to conn.Ping(pingCtx)
HeartbeatTimer(m) == [m EXCEPT !.pc = "ping"]

\* if missedPings >= cfg.MaxMissedPings
MaxMissedReached_Strict(missed, maxMissed) == missed > maxMissed
MaxMissedReached_FirstFailure(missed, maxMissed) == missed >= 1
MaxMissedReached(missed, maxMissed) == missed >= maxMissed

\* EnhancedHeartbeat from the return of conn.Ping to the next select (or the return):
\* PingsSent.Add(1), then the failure or the success branch, then timer.Reset.
EnhancedHeartbeatAfterPing_NoFailedCount(m, err, latency, maxMissed) ==
    LET sent == [m EXCEPT !.PingsSent = @ + 1] IN
    IF err
    THEN LET f == [sent EXCEPT !.missedPings = @ + 1] IN
         IF MaxMissedReached(f.missedPings, maxMissed)
         THEN [f EXCEPT !.pc = "returned", !.result = "failed"]
         ELSE [f EXCEPT !.pc = "select"]
    ELSE [sent EXCEPT !.AvgLatency = latency, !.PongsReceived = @ + 1,
                      !.missedPings = 0, !.pc = "select"]
EnhancedHeartbeatAfterPing(m, err, latency, maxMissed) ==
    LET sent == [m EXCEPT !.PingsSent = @ + 1] IN
    IF err
    THEN LET f == [sent EXCEPT !.FailedPings = @ + 1, !.missedPings = @ + 1] IN
         IF MaxMissedReached(f.missedPings, maxMissed)
         THEN [f EXCEPT !.pc = "returned", !.result = "failed"]
         ELSE [f EXCEPT !.pc = "select"]
    ELSE [sent EXCEPT !.AvgLatency = latency, !.PongsReceived = @ + 1,
                      !.missedPings = 0, !.pc = "select"]

\* ClientHeartbeat, the same stretch of its loop.
ClientHeartbeatAfterPing(m, err, latency, maxMissed) ==
    LET sent == [m EXCEPT !.PingsSent = @ + 1] IN
    IF err
    THEN LET f == [sent EXCEPT !.FailedPings = @ + 1, !.missedPings = @ + 1] IN
         IF f.missedPings >= maxMissed
         THEN [f EXCEPT !.pc = "returned", !.result = "failed"]
         ELSE [f EXCEPT !.pc = "select"]
    ELSE [sent EXCEPT !.AvgLatency = latency, !.PongsReceived = @ + 1,
                      !.missedPings = 0, !.pc = "select"]

AfterPing(impl, m, err, latency, maxMissed) ==
    IF impl = "ClientHeartbeat"
    THEN ClientHeartbeatAfterPing(m, err, latency, maxMissed)
    ELSE EnhancedHeartbeatAfterPing(m, err, latency, maxMissed)

\* What the monitor run on its own leaves alone.
MonFrame == <<cmVars, taskVars, rateVars, srvVars, extVars>>

\* The select takes timer.C. The timer may have fired while ctx.Done() is ready
\* too: Go's select then picks either case.
MonTimer ==
    /\ mon.pc = "select"
    /\ mon.PingsSent < MaxPings
    /\ mon' = HeartbeatTimer(mon)
    /\ UNCHANGED <<hbImpl, cfgMaxMissed, ctxDone, probes>>
    /\ UNCHANGED MonFrame

\* The select takes ctx.Done().
MonCtxDone ==
    /\ mon.pc = "select"
    /\ ctxDone
    /\ mon' = HeartbeatCancelled(mon)
    /\ UNCHANGED <<hbImpl, cfgMaxMissed, ctxDone, probes>>
    /\ UNCHANGED MonFrame

\* conn.Ping(pingCtx) returns nil: the pong came within cfg.Timeout and before any
\* cancellation.
MonPingOk ==
    /\ mon.pc = "ping"
    /\ ~ctxDone
    /\ \E latency \in Latencies :
          mon' = AfterPing(hbImpl, mon, FALSE, latency, cfgMaxMissed)
    /\ probes' = Append(probes, "ok")
    /\ UNCHANGED <<hbImpl, cfgMaxMissed, ctxDone>>
    /\ UNCHANGED MonFrame

\* conn.Ping(pingCtx) returns an error: the timeout, a transport error, or the
\* cancellation of ctx, of which pingCtx is a child.
MonPingErr ==
    /\ mon.pc = "ping"
    /\ mon' = AfterPing(hbImpl, mon, TRUE, 0, cfgMaxMissed)
    /\ probes' = Append(probes, "err")
    /\ UNCHANGED <<hbImpl, cfgMaxMissed, ctxDone>>
    /\ UNCHANGED MonFrame

\* The owner cancels ctx while the monitor runs.
CancelCtx ==
    /\ ~ctxDone
    /\ mon.pc # "returned"
    /\ ctxDone' = TRUE
    /\ UNCHANGED <<hbImpl, cfgMaxMissed, mon, probes>>
    /\ UNCHANGED MonFrame

\* -------------------------------------------------------- ping rate limiter

\* Seconds. minPingInterval = 10 * time.Second.
minPingInterval == 10
maxViolations == 3

\* The zero time.Time (IsZero); the clock of the model starts minPingInterval
\* later, so that time.Since(zero) is never below minPingInterval.
ZeroTime == 0
StartTime == ZeroTime + minPingInterval

\* The clock advances in steps of half the minimum interval, up to MaxTime.
ClockStep == minPingInterval \div 2
MaxTime == 40

\* Observations are made while the counter of their kind is below MaxCount.
MaxCount == 5

Kinds == {"outbound", "inbound"}

\* &ConnectionState{}: every field zero.
ZeroConnectionState ==
    [lastPing |-> ZeroTime, pingCount |-> 0, violations |-> 0,
     lastClientPing |-> ZeroTime, clientViolations |-> 0]

\* The state GetOrCreate builds: &ConnectionState{lastPing: time.Now()}
CreatedConnectionState(t) == [ZeroConnectionState EXCEPT !.lastPing = t]

IsZero(t) == t = ZeroTime

\* time.Since(t) and now.Sub(t)
Since(t, clock) == clock - t

\* RateLimitPing at time clock: the result and the state it leaves.
RateLimitPing_RejectAtThreshold(s, clock) ==
    IF Since(s.lastPing, clock) < minPingInterval
    THEN LET v == s.violations + 1 IN
         IF v >= maxViolations
         THEN [ok |-> FALSE, state |-> [s EXCEPT !.violations = v]]
         ELSE [ok |-> TRUE, state |-> [s EXCEPT !.violations = v, !.lastPing = clock]]
    ELSE [ok |-> TRUE, state |-> [s EXCEPT !.violations = 0, !.lastPing = clock]]
RateLimitPing_SharedCounter(s, clock) ==
    IF Since(s.lastPing, clock) < minPingInterval
    THEN LET v == s.violations + 1 IN
         IF v > maxViolations
         THEN [ok |-> FALSE, state |-> [s EXCEPT !.violations = v, !.clientViolations = v]]
         ELSE [ok |-> TRUE, state |-> [s EXCEPT !.violations = v, !.clientViolations = v,
                                                !.lastPing = clock]]
    ELSE [ok |-> TRUE, state |-> [s EXCEPT !.violations = 0, !.lastPing = clock]]
RateLimitPing(s, clock) ==
    IF Since(s.lastPing, clock) < minPingInterval
    THEN LET v == s.violations + 1 IN
         IF v > maxViolations
         THEN [ok |-> FALSE, state |-> [s EXCEPT !.violations = v]]
         ELSE [ok |-> TRUE, state |-> [s EXCEPT !.violations = v, !.lastPing = clock]]
    ELSE [ok |-> TRUE, state |-> [s EXCEPT !.violations = 0, !.lastPing = clock]]

\* RateLimitClientPing at time clock: the result and the state it leaves.
RateLimitClientPing_ResetOnReject(s, clock) ==
    IF IsZero(s.lastClientPing)
    THEN [ok |-> TRUE, state |-> [s EXCEPT !.lastClientPing = clock]]
    ELSE IF Since(s.lastClientPing, clock) < minPingInterval
         THEN LET v == s.clientViolations + 1 IN
              IF v > maxViolations
              THEN [ok |-> FALSE,
                    state |-> [s EXCEPT !.clientViolations = 0, !.lastClientPing = clock]]
              ELSE [ok |-> TRUE,
                    state |-> [s EXCEPT !.clientViolations = v, !.lastClientPing = clock]]
         ELSE [ok |-> TRUE,
               state |-> [s EXCEPT !.clientViolations = 0, !.lastClientPing = clock]]
RateLimitClientPing_NoStampOnReject(s, clock) ==
    IF IsZero(s.lastClientPing)
    THEN [ok |-> TRUE, state |-> [s EXCEPT !.lastClientPing = clock]]
    ELSE IF Since(s.lastClientPing, clock) < minPingInterval
         THEN LET v == s.clientViolations + 1 IN
              IF v > maxViolations
              THEN [ok |-> FALSE, state |-> [s EXCEPT !.clientViolations = v]]
              ELSE [ok |-> TRUE,
                    state |-> [s EXCEPT !.clientViolations = v, !.lastClientPing = clock]]
         ELSE [ok |-> TRUE,
               state |-> [s EXCEPT !.clientViolations = 0, !.lastClientPing = clock]]
RateLimitClientPing(s, clock) ==
    IF IsZero(s.lastClientPing)
    THEN [ok |-> TRUE, state |-> [s EXCEPT !.lastClientPing = clock]]
    ELSE IF Since(s.lastClientPing, clock) < minPingInterval
         THEN LET v == s.clientViolations + 1 IN
              [ok |-> ~(v > maxViolations),
               state |-> [s EXCEPT !.clientViolations = v, !.lastClientPing = clock]]
         ELSE [ok |-> TRUE,
               state |-> [s EXCEPT !.clientViolations = 0, !.lastClientPing = clock]]

\* GetClientViolations
GetClientViolations(s) == s.clientViolations

\* The violation counter of a kind.
Counter(s, k) == IF k = "outbound" THEN s.violations ELSE s.clientViolations

BoolStr(b) == IF b THEN "true" ELSE "false"

\* What the rate limiter run on its own leaves alone.
RateFrame == <<cmVars, taskVars, monVars, srvVars, extVars>>

\* The history kept per observation of kind k: its result, whether it came
\* before minPingInterval had elapsed since the recorded timestamp of its kind,
\* the result of the observation of that kind before it, the clock reading, and
\* the length of the run of observations that each came less than
\* minPingInterval after the one before (no longer counted above MaxCount + 1,
\* which no counter of the model reaches).
Observed(k, ok, early) ==
    /\ obsRet' = [obsRet EXCEPT ![k] = BoolStr(ok)]
    /\ obsPrev' = [obsPrev EXCEPT ![k] = obsRet[k]]
    /\ obsEarly' = [obsEarly EXCEPT ![k] = early]
    /\ rejected' = [rejected EXCEPT ![k] = @ \/ ~ok]
    /\ obsAt' = [obsAt EXCEPT ![k] = now]
    /\ expected' = [expected EXCEPT ![k] =
                        IF obsRet[k] # "none" /\ Since(obsAt[k], now) < minPingInterval
                        THEN IF @ > MaxCount THEN @ ELSE @ + 1
                        ELSE 0]

\* One call of cs.RateLimitPing().
ObserveOutbound ==
    /\ cs.violations < MaxCount
    /\ cs' = RateLimitPing(cs, now).state
    /\ Observed("outbound", RateLimitPing(cs, now).ok,
                Since(cs.lastPing, now) < minPingInterval)
    /\ UNCHANGED now
    /\ UNCHANGED RateFrame

\* One call of cs.RateLimitClientPing().
ObserveInbound ==
    /\ cs.clientViolations < MaxCount
    /\ cs' = RateLimitClientPing(cs, now).state
    /\ Observed("inbound", RateLimitClientPing(cs, now).ok,
                ~IsZero(cs.lastClientPing)
                    /\ Since(cs.lastClientPing, now) < minPingInterval)
    /\ UNCHANGED now
    /\ UNCHANGED RateFrame

\* Time passes.
Tick ==
    /\ now + ClockStep <= MaxTime
    /\ now' = now + ClockStep
    /\ UNCHANGED <<cs, obsRet, obsPrev, obsEarly, rejected, obsAt, expected>>
    /\ UNCHANGED RateFrame

\* ------------------------------------------------------------- the server

\* Invocations of handleWebSocket that may run at once; an invocation that has
\* returned, and whose heartbeat goroutine has ended, makes room for a new one.
NumConns == 2
Handlers == 1..NumConns

\* The ceiling of the server's connManager. The source sets 50; the model runs the
\* server with a ceiling that NumConns connections reach.
maxConnectionsPerIP == 1

\* DefaultHeartbeatConfig().MaxMissedPings
DefaultMaxMissedPings == 2

\* clientIP := r.RemoteAddr: the key of the admission table is the whole
\* "IP:port" string.
ClientKey(addr) == addr

\* The handler is between its successful CheckLimit and its deferred Release.
Holding(h) == hpc[h] \in {"accept", "read", "write", "close", "cancel", "dec", "release"}

\* The invocations that hold a slot of the key.
Holders(key) == {h \in Handlers : Holding(h) /\ ClientKey(remote[h]) = key}

\* if err != nil { log; return }: only the deferred Release is registered yet.
AfterHandshakeFailure_NoRelease == "done"
AfterHandshakeFailure_Decrements == "dec"
AfterHandshakeFailure == "release"

\* A panic in the message loop unwinds through every deferred call, the deferred
\* conn.Close first.
AfterPanic == "close"

\* The goroutine's last statement, cancel(): the ctx is done afterwards.
AfterHeartbeat_NoCancel(done) == done
AfterHeartbeat(done) == TRUE

\* The server keeps the control state of its monitors only: the metrics are
\* written by the monitor and read by nothing but the log line of the goroutine.
WithoutMetrics(m) ==
    [m EXCEPT !.PingsSent = 0, !.PongsReceived = 0, !.FailedPings = 0, !.AvgLatency = 0]

\* The monitor with its goroutine not started.
NoHeartbeat == [NewMonitor EXCEPT !.pc = "off"]

\* What the handlers and their goroutines leave alone.
SrvFrame == <<taskVars, monVars, rateVars, stopped, extVars>>

\* net/http calls handleWebSocket for a request from addr; after server.Shutdown
\* the listener is closed and no request arrives.
Arrive(h, addr) ==
    /\ ~stopped
    /\ hpc[h] \in {"idle", "done"}
    /\ hb[h].pc \in {"off", "exited"}
    /\ hpc' = [hpc EXCEPT ![h] = "check"]
    /\ remote' = [remote EXCEPT ![h] = addr]
    /\ conn' = [conn EXCEPT ![h] = "none"]
    /\ ctxd' = [ctxd EXCEPT ![h] = FALSE]
    /\ hb' = [hb EXCEPT ![h] = NoHeartbeat]
    /\ exit' = [exit EXCEPT ![h] = "none"]
    /\ released' = [released EXCEPT ![h] = 0]
    /\ UNCHANGED <<connections, maxPerIP, activeConnections, states>>
    /\ UNCHANGED SrvFrame

\* Step 1: connManager.CheckLimit(clientIP); on false http.Error(429) and return,
\* else defer connManager.Release(clientIP).
Admission_ReleaseOnReject(h) ==
    /\ hpc[h] = "check"
    /\ LET r == CheckLimit(connections, ClientKey(remote[h]), maxPerIP) IN
          /\ connections' = r.table
          /\ hpc' = [hpc EXCEPT ![h] = IF r.ok THEN "accept" ELSE "release"]
          /\ exit' = [exit EXCEPT ![h] = IF r.ok THEN "none" ELSE "429"]
    /\ UNCHANGED <<maxPerIP, remote, conn, ctxd, hb, activeConnections, states,
                   released>>
    /\ UNCHANGED SrvFrame
Admission(h) ==
    /\ hpc[h] = "check"
    /\ LET r == CheckLimit(connections, ClientKey(remote[h]), maxPerIP) IN
          /\ connections' = r.table
          /\ hpc' = [hpc EXCEPT ![h] = IF r.ok THEN "accept" ELSE "done"]
          /\ exit' = [exit EXCEPT ![h] = IF r.ok THEN "none" ELSE "429"]
    /\ UNCHANGED <<maxPerIP, remote, conn, ctxd, hb, activeConnections, states,
                   released>>
    /\ UNCHANGED SrvFrame

\* Step 2 fails: websocket.Accept returns an error.
AcceptFails(h) ==
    /\ hpc[h] = "accept"
    /\ hpc' = [hpc EXCEPT ![h] = AfterHandshakeFailure]
    /\ exit' = [exit EXCEPT ![h] = "handshake"]
    /\ UNCHANGED <<connections, maxPerIP, remote, conn, ctxd, hb, activeConnections,
                   states, released>>
    /\ UNCHANGED SrvFrame

\* Steps 2 to 5: the handshake succeeds, activeConnections.Add(1), the ctx is
\* created, the heartbeat goroutine is started with DefaultHeartbeatConfig.
AcceptSucceeds(h) ==
    /\ hpc[h] = "accept"
    /\ hpc' = [hpc EXCEPT ![h] = "read"]
    /\ conn' = [conn EXCEPT ![h] = "open"]
    /\ activeConnections' = activeConnections + 1
    /\ ctxd' = [ctxd EXCEPT ![h] = FALSE]
    /\ hb' = [hb EXCEPT ![h] = NewMonitor]
    /\ UNCHANGED <<connections, maxPerIP, remote, states, exit, released>>
    /\ UNCHANGED SrvFrame

\* Step 6: conn.Read(readCtx) returns a message. The handler reads from the
\* *websocket.Conn itself: no ConnectionState is consulted or created.
ReadMessage(h) ==
    /\ hpc[h] = "read"
    /\ conn[h] = "open"
    /\ ~ctxd[h]
    /\ hpc' = [hpc EXCEPT ![h] = "write"]
    /\ UNCHANGED <<connections, maxPerIP, remote, conn, ctxd, hb, activeConnections,
                   states, exit, released>>
    /\ UNCHANGED SrvFrame

\* conn.Read returns an error of its own: the peer closed, the transport failed,
\* or readTimeout passed without a message.
ReadFails(h) ==
    /\ hpc[h] = "read"
    /\ hpc' = [hpc EXCEPT ![h] = "close"]
    /\ exit' = [exit EXCEPT ![h] = "loop"]
    /\ UNCHANGED <<connections, maxPerIP, remote, conn, ctxd, hb, activeConnections,
                   states, released>>
    /\ UNCHANGED SrvFrame

\* conn.Read returns context.DeadlineExceeded: readTimeout has passed on readCtx
\* without a message from the peer. Nothing else has gone wrong.
ReadTimeout(h) ==
    /\ hpc[h] = "read"
    /\ conn[h] = "open"
    /\ ~ctxd[h]
    /\ hpc' = [hpc EXCEPT ![h] = "close"]
    /\ exit' = [exit EXCEPT ![h] = "timeout"]
    /\ UNCHANGED <<connections, maxPerIP, remote, conn, ctxd, hb, activeConnections,
                   states, released>>
    /\ UNCHANGED SrvFrame

\* conn.Read returns because ctx, the parent of readCtx, is cancelled.
ReadCancelled_Detached(h) ==
    /\ FALSE
    /\ UNCHANGED vars
ReadCancelled(h) ==
    /\ hpc[h] = "read"
    /\ ctxd[h]
    /\ hpc' = [hpc EXCEPT ![h] = "close"]
    /\ exit' = [exit EXCEPT ![h] = "loop"]
    /\ UNCHANGED <<connections, maxPerIP, remote, conn, ctxd, hb, activeConnections,
                   states, released>>
    /\ UNCHANGED SrvFrame

\* conn.Write(writeCtx, ...) echoes the message.
WriteEcho(h) ==
    /\ hpc[h] = "write"
    /\ conn[h] = "open"
    /\ ~ctxd[h]
    /\ hpc' = [hpc EXCEPT ![h] = "read"]
    /\ UNCHANGED <<connections, maxPerIP, remote, conn, ctxd, hb, activeConnections,
                   states, exit, released>>
    /\ UNCHANGED SrvFrame

\* conn.Write returns an error of its own.
WriteFails(h) ==
    /\ hpc[h] = "write"
    /\ hpc' = [hpc EXCEPT ![h] = "close"]
    /\ exit' = [exit EXCEPT ![h] = "loop"]
    /\ UNCHANGED <<connections, maxPerIP, remote, conn, ctxd, hb, activeConnections,
                   states, released>>
    /\ UNCHANGED SrvFrame

\* conn.Write returns because ctx is cancelled.
WriteCancelled(h) ==
    /\ hpc[h] = "write"
    /\ ctxd[h]
    /\ hpc' = [hpc EXCEPT ![h] = "close"]
    /\ exit' = [exit EXCEPT ![h] = "loop"]
    /\ UNCHANGED <<connections, maxPerIP, remote, conn, ctxd, hb, activeConnections,
                   states, released>>
    /\ UNCHANGED SrvFrame

\* A panic inside the message loop: the deferred calls run, the statements after
\* the loop do not.
Panic(h) ==
    /\ hpc[h] \in {"read", "write"}
    /\ hpc' = [hpc EXCEPT ![h] = AfterPanic]
    /\ exit' = [exit EXCEPT ![h] = "loop"]
    /\ UNCHANGED <<connections, maxPerIP, remote, conn, ctxd, hb, activeConnections,
                   states, released>>
    /\ UNCHANGED SrvFrame

\* conn.Close(StatusNormalClosure) after the loop and the deferred
\* conn.Close(StatusInternalError): the connection is closed after either.
CloseConn(h) ==
    /\ hpc[h] = "close"
    /\ conn' = [conn EXCEPT ![h] = "closed"]
    /\ hpc' = [hpc EXCEPT ![h] = "cancel"]
    /\ UNCHANGED <<connections, maxPerIP, remote, ctxd, hb, activeConnections, states,
                   exit, released>>
    /\ UNCHANGED SrvFrame

\* defer cancel()
DeferredCancel(h) ==
    /\ hpc[h] = "cancel"
    /\ ctxd' = [ctxd EXCEPT ![h] = TRUE]
    /\ hpc' = [hpc EXCEPT ![h] = "dec"]
    /\ UNCHANGED <<connections, maxPerIP, remote, conn, hb, activeConnections, states,
                   exit, released>>
    /\ UNCHANGED SrvFrame

\* defer activeConnections.Add(-1)
DeferredDecrement(h) ==
    /\ hpc[h] = "dec"
    /\ activeConnections' = activeConnections - 1
    /\ hpc' = [hpc EXCEPT ![h] = "release"]
    /\ UNCHANGED <<connections, maxPerIP, remote, conn, ctxd, hb, states, exit,
                   released>>
    /\ UNCHANGED SrvFrame

\* defer connManager.Release(clientIP): the handler returns.
DeferredRelease(h) ==
    /\ hpc[h] = "release"
    /\ connections' = Release(connections, ClientKey(remote[h]))
    /\ released' = [released EXCEPT ![h] = @ + 1]
    /\ hpc' = [hpc EXCEPT ![h] = "done"]
    /\ UNCHANGED <<maxPerIP, remote, conn, ctxd, hb, activeConnections, states, exit>>
    /\ UNCHANGED SrvFrame

\* The goroutine's monitor: the select takes timer.C.
HbTimer(h) ==
    /\ hb[h].pc = "select"
    /\ hb' = [hb EXCEPT ![h] = HeartbeatTimer(@)]
    /\ UNCHANGED <<connections, maxPerIP, hpc, remote, conn, ctxd, activeConnections,
                   states, exit, released>>
    /\ UNCHANGED SrvFrame

\* The select takes ctx.Done().
HbCtxDone(h) ==
    /\ hb[h].pc = "select"
    /\ ctxd[h]
    /\ hb' = [hb EXCEPT ![h] = HeartbeatCancelled(@)]
    /\ UNCHANGED <<connections, maxPerIP, hpc, remote, conn, ctxd, activeConnections,
                   states, exit, released>>
    /\ UNCHANGED SrvFrame

\* conn.Ping returns nil: the peer answered in time on the open connection.
HbPingOk(h) ==
    /\ hb[h].pc = "ping"
    /\ conn[h] = "open"
    /\ ~ctxd[h]
    /\ \E latency \in Latencies :
          hb' = [hb EXCEPT ![h] = WithoutMetrics(
                    EnhancedHeartbeatAfterPing(@, FALSE, latency, DefaultMaxMissedPings))]
    /\ UNCHANGED <<connections, maxPerIP, hpc, remote, conn, ctxd, activeConnections,
                   states, exit, released>>
    /\ UNCHANGED SrvFrame

\* conn.Ping returns an error: no pong within cfg.Timeout, the connection is
\* closed, or ctx is cancelled.
HbPingErr(h) ==
    /\ hb[h].pc = "ping"
    /\ hb' = [hb EXCEPT ![h] = WithoutMetrics(
                 EnhancedHeartbeatAfterPing(@, TRUE, 0, DefaultMaxMissedPings))]
    /\ UNCHANGED <<connections, maxPerIP, hpc, remote, conn, ctxd, activeConnections,
                   states, exit, released>>
    /\ UNCHANGED SrvFrame

\* EnhancedHeartbeat has returned: the goroutine logs a failure and calls cancel();
\* the metrics die with the goroutine.
HbExit(h) ==
    /\ hb[h].pc = "returned"
    /\ ctxd' = [ctxd EXCEPT ![h] = AfterHeartbeat(@)]
    /\ hb' = [hb EXCEPT ![h] = [NewMonitor EXCEPT !.pc = "exited"]]
    /\ UNCHANGED <<connections, maxPerIP, hpc, remote, conn, activeConnections, states,
                   exit, released>>
    /\ UNCHANGED SrvFrame

\* Start: the ctx it was given is cancelled and it calls server.Shutdown, which
\* closes the listener and leaves hijacked connections alone. The ctx of a
\* connection is a child of context.Background(), not of Start's ctx.
Shutdown ==
    /\ ~stopped
    /\ stopped' = TRUE
    /\ UNCHANGED <<connections, maxPerIP, hpc, remote, conn, ctxd, hb, activeConnections,
                   states, exit, released>>
    /\ UNCHANGED <<taskVars, monVars, rateVars, extVars>>

\* ------------------------------------------------------------- the client

\* for i := 1; i <= 5; i++
ClientRounds == 5

\* DefaultClientHeartbeatConfig().MaxMissedPings
DefaultClientMaxMissedPings == 2

\* Run before websocket.Dial. pc: "dial", "loop" (the select at the head of a
\* round), "write", "read", "sleep", "returned". conn: "none", "open", "closed".
\* ctxDone: the ctx Run was given is cancelled. result: "none", "nil" or "error".
NewRun == [pc |-> "dial", i |-> 0, conn |-> "none", ctxDone |-> FALSE, result |-> "none"]

\* Run returns: the deferred heartbeatCancel() and conn.Close(StatusInternalError)
\* run; a connection closed before stays closed.
RunReturns(r, res) == [r EXCEPT !.pc = "returned", !.conn = "closed", !.result = res]

\* What Run and its goroutine leave alone.
ClientFrame == <<readVars, cmVars, taskVars, rateVars, srvVars, depVars, obsVars, regVars, listVars,
                 hbImpl, cfgMaxMissed>>

\* websocket.Dial fails: return before any defer of the connection.
RunDialFails ==
    /\ run.pc = "dial"
    /\ run' = [run EXCEPT !.pc = "returned", !.result = "error"]
    /\ UNCHANGED <<mon, ctxDone, probes>>
    /\ UNCHANGED ClientFrame

\* websocket.Dial succeeds: heartbeatCtx is made a child of ctx and the goroutine
\* is started.
RunDialSucceeds ==
    /\ run.pc = "dial"
    /\ ~run.ctxDone
    /\ run' = [run EXCEPT !.pc = "loop", !.i = 1, !.conn = "open"]
    /\ mon' = NewMonitor
    /\ ctxDone' = FALSE
    /\ UNCHANGED probes
    /\ UNCHANGED ClientFrame

\* The head of a round, case <-ctx.Done(): conn.Close and return ctx.Err().
RunCtxDone ==
    /\ run.pc = "loop"
    /\ run.ctxDone
    /\ run' = RunReturns(run, "error")
    /\ ctxDone' = TRUE
    /\ UNCHANGED <<mon, probes>>
    /\ UNCHANGED ClientFrame

\* The head of a round, default: go on to conn.Write. Nothing here looks at the
\* goroutine or at heartbeatCtx.
RunRound ==
    /\ run.pc = "loop"
    /\ ~run.ctxDone
    /\ run' = [run EXCEPT !.pc = "write"]
    /\ UNCHANGED <<mon, ctxDone, probes>>
    /\ UNCHANGED ClientFrame

\* conn.Write(writeCtx, ...) sends "Client Ping #i".
RunWrite ==
    /\ run.pc = "write"
    /\ run.conn = "open"
    /\ ~run.ctxDone
    /\ run' = [run EXCEPT !.pc = "read"]
    /\ UNCHANGED <<mon, ctxDone, probes>>
    /\ UNCHANGED ClientFrame

\* conn.Write returns an error: return fmt.Errorf("failed to send message").
RunWriteFails ==
    /\ run.pc = "write"
    /\ run' = RunReturns(run, "error")
    /\ ctxDone' = TRUE
    /\ UNCHANGED <<mon, probes>>
    /\ UNCHANGED ClientFrame

\* conn.Read(readCtx) returns the echo.
RunRead ==
    /\ run.pc = "read"
    /\ run.conn = "open"
    /\ ~run.ctxDone
    /\ run' = [run EXCEPT !.pc = "sleep"]
    /\ UNCHANGED <<mon, ctxDone, probes>>
    /\ UNCHANGED ClientFrame

\* conn.Read returns an error, messageTimeout included.
RunReadFails ==
    /\ run.pc = "read"
    /\ run' = RunReturns(run, "error")
    /\ ctxDone' = TRUE
    /\ UNCHANGED <<mon, probes>>
    /\ UNCHANGED ClientFrame

\* time.Sleep(2 * time.Second) is over and i++: the next round, or after round
\* ClientRounds conn.Close(StatusNormalClosure) and return nil.
RunSleep ==
    /\ run.pc = "sleep"
    /\ IF run.i < ClientRounds
       THEN /\ run' = [run EXCEPT !.pc = "loop", !.i = @ + 1]
            /\ UNCHANGED ctxDone
       ELSE /\ run' = RunReturns(run, "nil")
            /\ ctxDone' = TRUE
    /\ UNCHANGED <<mon, probes>>
    /\ UNCHANGED ClientFrame

\* The caller cancels the ctx it gave to Run; heartbeatCtx is its child.
RunCancel ==
    /\ run.pc \notin {"returned"}
    /\ ~run.ctxDone
    /\ run' = [run EXCEPT !.ctxDone = TRUE]
    /\ ctxDone' = TRUE
    /\ UNCHANGED <<mon, probes>>
    /\ UNCHANGED ClientFrame

\* The goroutine's conn.Ping returns nil: the connection is open and the peer
\* answered in time.
ClientPingOk ==
    /\ run.conn = "open"
    /\ MonPingOk

\* The goroutine's conn.Ping returns an error: no pong within cfg.Timeout on a
\* connection that stays usable, or a failure of the transport, after which the
\* connection is of no use to Run either. When the error ends ClientHeartbeat the
\* goroutine logs "Client heartbeat failed" and ends: it calls neither
\* heartbeatCancel nor conn.Close.
ClientPingErr ==
    /\ mon.pc = "ping"
    /\ mon' = AfterPing(hbImpl, mon, TRUE, 0, cfgMaxMissed)
    /\ probes' = Append(probes, "err")
    /\ \E c \in {run.conn, "closed"} : run' = [run EXCEPT !.conn = c]
    /\ UNCHANGED ctxDone
    /\ UNCHANGED ClientFrame

\* ------------------------------------------------ the deprecated HeartBeat

\* A tolerance no behaviour of the model exhausts: more than MaxPings probes.
Unlimited == MaxPings + 1

\* HeartBeat from the return of c.Ping(ctx) to the next select (or the return):
\* if err != nil { return }, else t.Reset(time.Minute). It keeps no counter.
HeartBeatAfterPing(m, err) ==
    IF err THEN [m EXCEPT !.pc = "returned"] ELSE [m EXCEPT !.pc = "select"]

\* What HeartBeat and the monitor it is compared with leave alone.
DepFrame == <<readVars, cmVars, taskVars, rateVars, srvVars, clientVars, obsVars, regVars, listVars,
              hbImpl, cfgMaxMissed>>

\* A monitor takes the event when it is at the position the event belongs to.
DepStep(m, at, next) == IF m.pc = at THEN next ELSE m

\* t.C and timer.C fire.
DepTimer ==
    /\ mon.pc = "select" \/ ref.pc = "select"
    /\ Len(probes) < MaxPings
    /\ mon' = DepStep(mon, "select", HeartbeatTimer(mon))
    /\ ref' = DepStep(ref, "select", HeartbeatTimer(ref))
    /\ UNCHANGED <<ctxDone, probes>>
    /\ UNCHANGED DepFrame

\* case <-ctx.Done(): HeartBeat returns, the monitor returns ctx.Err().
DepCtxDone ==
    /\ ctxDone
    /\ mon.pc = "select" \/ ref.pc = "select"
    /\ mon' = DepStep(mon, "select", [mon EXCEPT !.pc = "returned"])
    /\ ref' = DepStep(ref, "select", HeartbeatCancelled(ref))
    /\ UNCHANGED <<ctxDone, probes>>
    /\ UNCHANGED DepFrame

\* The probe in flight succeeds.
DepPingOk ==
    /\ ~ctxDone
    /\ mon.pc = "ping" \/ ref.pc = "ping"
    /\ mon' = DepStep(mon, "ping", HeartBeatAfterPing(mon, FALSE))
    /\ \E latency \in Latencies :
          ref' = DepStep(ref, "ping", WithoutMetrics(
                     EnhancedHeartbeatAfterPing(ref, FALSE, latency, cfgMaxMissed)))
    /\ probes' = Append(probes, "ok")
    /\ UNCHANGED ctxDone
    /\ UNCHANGED DepFrame

\* The probe in flight fails.
DepPingErr ==
    /\ mon.pc = "ping" \/ ref.pc = "ping"
    /\ mon' = DepStep(mon, "ping", HeartBeatAfterPing(mon, TRUE))
    /\ ref' = DepStep(ref, "ping", WithoutMetrics(
                  EnhancedHeartbeatAfterPing(ref, TRUE, 0, cfgMaxMissed)))
    /\ probes' = Append(probes, "err")
    /\ UNCHANGED ctxDone
    /\ UNCHANGED DepFrame

\* The owner cancels ctx.
DepCancel ==
    /\ ~ctxDone
    /\ mon.pc # "returned" \/ ref.pc # "returned"
    /\ ctxDone' = TRUE
    /\ UNCHANGED <<mon, ref, probes>>
    /\ UNCHANGED DepFrame

\* ------------------------------- RateLimitPing called by several goroutines

\* Goroutines that each call RateLimitPing once on the same ConnectionState.
NumObservers == 3
Observers == 1..NumObservers

\* cs.mu.Lock() of part_002:37 returns only when no one holds the mutex; the
\* RateLimitPing of part_002:276 has no mutex and its first statement is the test.
CanEnter(impl, holder) == impl = "plain" \/ holder = 0
Holder(impl, o) == IF impl = "mutex" THEN o ELSE 0

\* What the goroutines leave alone.
ObsFrame == <<readVars, cmVars, taskVars, monVars, srvVars, clientVars, depVars, regVars, listVars,
              csImpl, now, obsRet, obsPrev, obsEarly, rejected, obsAt, expected>>

\* cs.mu.Lock(): the goroutine enters RateLimitPing.
ObsLock(o) ==
    /\ opc[o] = "lock"
    /\ CanEnter(csImpl, csMu)
    /\ csMu' = Holder(csImpl, o)
    /\ opc' = [opc EXCEPT ![o] = "test"]
    /\ UNCHANGED <<cs, oreg, oearly>>
    /\ UNCHANGED ObsFrame

\* if time.Since(cs.lastPing) < minPingInterval
ObsTest(o) ==
    /\ opc[o] = "test"
    /\ LET early == Since(cs.lastPing, now) < minPingInterval IN
          /\ oearly' = [oearly EXCEPT ![o] = early]
          /\ opc' = [opc EXCEPT ![o] = IF early THEN "load" ELSE "reset"]
    /\ UNCHANGED <<cs, csMu, oreg>>
    /\ UNCHANGED ObsFrame

\* cs.violations++, its read of the field.
ObsLoad(o) ==
    /\ opc[o] = "load"
    /\ oreg' = [oreg EXCEPT ![o] = cs.violations]
    /\ opc' = [opc EXCEPT ![o] = "store"]
    /\ UNCHANGED <<cs, csMu, oearly>>
    /\ UNCHANGED ObsFrame

\* cs.violations++, its write of the field, then if cs.violations > maxViolations
\* { return false }.
ObsStore(o) ==
    /\ opc[o] = "store"
    /\ cs' = [cs EXCEPT !.violations = oreg[o] + 1]
    /\ opc' = [opc EXCEPT ![o] = IF cs'.violations > maxViolations THEN "unlock" ELSE "stamp"]
    /\ UNCHANGED <<csMu, oreg, oearly>>
    /\ UNCHANGED ObsFrame

\* else { cs.violations = 0 }
ObsReset(o) ==
    /\ opc[o] = "reset"
    /\ cs' = [cs EXCEPT !.violations = 0]
    /\ opc' = [opc EXCEPT ![o] = "stamp"]
    /\ UNCHANGED <<csMu, oreg, oearly>>
    /\ UNCHANGED ObsFrame

\* cs.lastPing = time.Now()
ObsStamp(o) ==
    /\ opc[o] = "stamp"
    /\ cs' = [cs EXCEPT !.lastPing = now]
    /\ opc' = [opc EXCEPT ![o] = "unlock"]
    /\ UNCHANGED <<csMu, oreg, oearly>>
    /\ UNCHANGED ObsFrame

\* The deferred cs.mu.Unlock(): RateLimitPing returns.
ObsUnlock(o) ==
    /\ opc[o] = "unlock"
    /\ csMu' = 0
    /\ opc' = [opc EXCEPT ![o] = "done"]
    /\ UNCHANGED <<cs, oreg, oearly>>
    /\ UNCHANGED ObsFrame

\* -------------------------------------------------- ConnectionStateManager

\* Connection IDs in use and the ConnectionState objects a behaviour allocates.
ConnIDs == {"c1", "c2"}
MaxAddr == 3

\* delete(csm.states, connID)
RemoveState_KeepEntry(m, id) == m
RemoveState(m, id) == [k \in (DOMAIN m) \ {id} |-> m[k]]

\* csm.states[connID] = state
PutState(m, id, v) == [k \in (DOMAIN m) \cup {id} |-> IF k = id THEN v ELSE m[k]]

NoCall == [op |-> "none", id |-> "", ok |-> TRUE]

\* What the callers of the manager leave alone.
RegFrame == <<readVars, cmVars, taskVars, monVars, clientVars, depVars, obsVars, listVars,
              hpc, remote, conn, ctxd, hb, activeConnections, exit, released, stopped,
              cs, obsRet, obsPrev, obsEarly, rejected, obsAt, expected>>

\* GetOrCreate(connID) under csm.mu: the stored pointer if the ID is present, else
\* a new &ConnectionState{lastPing: time.Now()} that is stored and returned.
GetOrCreate(id) ==
    /\ IF id \in DOMAIN states
       THEN /\ got' = [got EXCEPT ![id].addr = addrOf[id]]
            /\ UNCHANGED <<states, addrOf, nextAddr>>
       ELSE /\ nextAddr <= MaxAddr
            /\ states' = PutState(states, id, CreatedConnectionState(now))
            /\ addrOf' = PutState(addrOf, id, nextAddr)
            /\ nextAddr' = nextAddr + 1
            /\ got' = [got EXCEPT ![id].addr = nextAddr, ![id].n = 0]
    /\ lastCall' = [op |-> "GetOrCreate", id |-> id, ok |-> id \in DOMAIN states]
    /\ UNCHANGED now
    /\ UNCHANGED RegFrame

\* Remove(connID) under csm.mu. The caller's pointer is not touched.
Remove(id) ==
    /\ states' = RemoveState(states, id)
    /\ addrOf' = RemoveState(addrOf, id)
    /\ lastCall' = [op |-> "Remove", id |-> id, ok |-> id \in DOMAIN states]
    /\ UNCHANGED <<got, nextAddr, now>>
    /\ UNCHANGED RegFrame

\* The caller observes a ping of kind k on the state GetOrCreate gave it for the
\* ID, while that state is the one in the map and has not rejected a ping.
ObserveState(id, k) ==
    /\ id \in DOMAIN states
    /\ got[id].addr = addrOf[id]
    /\ \A j \in Kinds : Counter(states[id], j) <= maxViolations
    /\ LET r == IF k = "outbound" THEN RateLimitPing(states[id], now)
                                  ELSE RateLimitClientPing(states[id], now) IN
          /\ states' = PutState(states, id, r.state)
          /\ got' = [got EXCEPT ![id].n = IF @ > maxViolations THEN @ ELSE @ + 1,
                                ![id].banned = @ \/ ~r.ok]
          /\ lastCall' = [op |-> "Observe", id |-> id, ok |-> r.ok]
    /\ UNCHANGED <<addrOf, nextAddr, now>>
    /\ UNCHANGED RegFrame

\* --------------------------------------------------------------- LinkedList

\* The longest list of a behaviour, the addresses of its nodes (0 is nil) and the
\* values stored.
MaxLen == 3
Nodes == 1..MaxLen
Values == {"a", "b"}

\* var zero T
ZeroValue == ""

\* &Node[T]{}
FreeNode == [Value |-> ZeroValue, Next |-> 0, Prev |-> 0]

\* New(): &LinkedList[T]{}
New == [head |-> 0, tail |-> 0, size |-> 0, node |-> [a \in Nodes |-> FreeNode]]

\* The addresses met from a by following the field f, at most fuel of them.
RECURSIVE Chain(_, _, _, _)
Chain(l, a, f, fuel) ==
    IF a = 0 \/ fuel = 0 THEN {}
    ELSE {a} \cup Chain(l, IF f = "Next" THEN l.node[a].Next ELSE l.node[a].Prev, f, fuel - 1)

\* The nodes a pointer of the list leads to; every other node is garbage.
Linked(l) == Chain(l, l.head, "Next", MaxLen + 1) \cup Chain(l, l.tail, "Prev", MaxLen + 1)

\* The address of a node the allocator hands out.
Alloc(l) == CHOOSE a \in Nodes \ Linked(l) : \A b \in Nodes \ Linked(l) : a <= b

\* The garbage collector: a node nothing leads to is gone.
Collect(l) ==
    [l EXCEPT !.node = [a \in Nodes |-> IF a \in Linked(l) THEN l.node[a] ELSE FreeNode]]

\* PushFront
PushFront_NoPrev(l, value) ==
    LET n == Alloc(l) IN
    IF l.head = 0
    THEN [l EXCEPT !.node[n] = [Value |-> value, Next |-> 0, Prev |-> 0],
                   !.head = n, !.tail = n, !.size = @ + 1]
    ELSE [l EXCEPT !.node[n] = [Value |-> value, Next |-> l.head, Prev |-> 0],
                   !.head = n, !.size = @ + 1]
PushFront(l, value) ==
    LET n == Alloc(l) IN
    IF l.head = 0
    THEN [l EXCEPT !.node[n] = [Value |-> value, Next |-> 0, Prev |-> 0],
                   !.head = n, !.tail = n, !.size = @ + 1]
    ELSE [l EXCEPT !.node[n] = [Value |-> value, Next |-> l.head, Prev |-> 0],
                   !.node[l.head].Prev = n,
                   !.head = n, !.size = @ + 1]

\* PushBack
PushBack_NoPrev(l, value) ==
    LET n == Alloc(l) IN
    IF l.tail = 0
    THEN [l EXCEPT !.node[n] = [Value |-> value, Next |-> 0, Prev |-> 0],
                   !.head = n, !.tail = n, !.size = @ + 1]
    ELSE [l EXCEPT !.node[n] = [Value |-> value, Next |-> 0, Prev |-> 0],
                   !.node[l.tail].Next = n,
                   !.tail = n, !.size = @ + 1]
PushBack(l, value) ==
    LET n == Alloc(l) IN
    IF l.tail = 0
    THEN [l EXCEPT !.node[n] = [Value |-> value, Next |-> 0, Prev |-> 0],
                   !.head = n, !.tail = n, !.size = @ + 1]
    ELSE [l EXCEPT !.node[n] = [Value |-> value, Next |-> 0, Prev |-> l.tail],
                   !.node[l.tail].Next = n,
                   !.tail = n, !.size = @ + 1]

\* The result of an operation that returns (T, bool), and the list it leaves.
Returned(l, value, ok) == [list |-> l, val |-> value, ok |-> ok]

\* PopFront
PopFront_KeepTail(l) ==
    IF l.head = 0 THEN Returned(l, ZeroValue, FALSE)
    ELSE LET value == l.node[l.head].Value
             h == l.node[l.head].Next IN
         Returned(IF h = 0
                  THEN [l EXCEPT !.head = 0, !.size = @ - 1]
                  ELSE [l EXCEPT !.head = h, !.node[h].Prev = 0, !.size = @ - 1],
                  value, TRUE)
PopFront(l) ==
    IF l.head = 0 THEN Returned(l, ZeroValue, FALSE)
    ELSE LET value == l.node[l.head].Value
             h == l.node[l.head].Next IN
         Returned(IF h = 0
                  THEN [l EXCEPT !.head = 0, !.tail = 0, !.size = @ - 1]
                  ELSE [l EXCEPT !.head = h, !.node[h].Prev = 0, !.size = @ - 1],
                  value, TRUE)

\* PopBack
PopBack(l) ==
    IF l.tail = 0 THEN Returned(l, ZeroValue, FALSE)
    ELSE LET value == l.node[l.tail].Value
             t == l.node[l.tail].Prev IN
         Returned(IF t = 0
                  THEN [l EXCEPT !.tail = 0, !.head = 0, !.size = @ - 1]
                  ELSE [l EXCEPT !.tail = t, !.node[t].Next = 0, !.size = @ - 1],
                  value, TRUE)

\* Front and Back
Front(l) ==
    IF l.head = 0 THEN Returned(l, ZeroValue, FALSE)
    ELSE Returned(l, l.node[l.head].Value, TRUE)
Back(l) ==
    IF l.tail = 0 THEN Returned(l, ZeroValue, FALSE)
    ELSE Returned(l, l.node[l.tail].Value, TRUE)

Size(l) == l.size
IsEmpty(l) == l.size = 0

\* Clear
Clear(l) == [l EXCEPT !.head = 0, !.tail = 0, !.size = 0]

\* ForEach from current on, with a function fn that returns false exactly on the
\* values of stop: the values fn is called on, in the order of the calls.
\* for current != nil { if !fn(current.Value) { return }; current = current.Next }
RECURSIVE ForEach(_, _, _, _)
ForEach(l, current, stop, fuel) ==
    IF current = 0 \/ fuel = 0 THEN <<>>
    ELSE IF l.node[current].Value \in stop THEN <<l.node[current].Value>>
    ELSE <<l.node[current].Value>> \o ForEach(l, l.node[current].Next, stop, fuel - 1)

\* ToSlice: its function appends the value and returns true. A walk longer than
\* every list of the model shows a cycle.
ToSlice(l) == ForEach(l, l.head, {}, MaxLen + 2)

\* Find with a cmp that holds exactly on the values of match: the index and true,
\* or -1 and false.
RECURSIVE FindFrom(_, _, _, _, _)
FindFrom(l, current, index, match, fuel) ==
    IF current = 0 \/ fuel = 0 THEN [index |-> -1, ok |-> FALSE]
    ELSE IF l.node[current].Value \in match THEN [index |-> index, ok |-> TRUE]
    ELSE FindFrom(l, l.node[current].Next, index + 1, match, fuel - 1)
Find_CountFromOne(l, match) == FindFrom(l, l.head, 1, match, MaxLen + 2)
Find(l, match) == FindFrom(l, l.head, 0, match, MaxLen + 2)

\* current := ll.head; for i := 0; i < index; i++ { current = current.Next }
RECURSIVE Advance(_, _, _)
Advance(l, current, index) ==
    IF index = 0 THEN current ELSE Advance(l, l.node[current].Next, index - 1)

\* Insert
Insert_NoAppend(l, index, value) ==
    IF index < 0 \/ index >= l.size THEN Returned(l, ZeroValue, FALSE)
    ELSE IF index = 0 THEN Returned(PushFront(l, value), ZeroValue, TRUE)
    ELSE LET current == Advance(l, l.head, index)
             before == l.node[current].Prev
             n == Alloc(l) IN
         Returned([l EXCEPT !.node[n] = [Value |-> value, Next |-> current, Prev |-> before],
                            !.node[before].Next = n,
                            !.node[current].Prev = n,
                            !.size = @ + 1],
                  ZeroValue, TRUE)
Insert(l, index, value) ==
    IF index < 0 \/ index > l.size THEN Returned(l, ZeroValue, FALSE)
    ELSE IF index = 0 THEN Returned(PushFront(l, value), ZeroValue, TRUE)
    ELSE IF index = l.size THEN Returned(PushBack(l, value), ZeroValue, TRUE)
    ELSE LET current == Advance(l, l.head, index)
             before == l.node[current].Prev
             n == Alloc(l) IN
         Returned([l EXCEPT !.node[n] = [Value |-> value, Next |-> current, Prev |-> before],
                            !.node[before].Next = n,
                            !.node[current].Prev = n,
                            !.size = @ + 1],
                  ZeroValue, TRUE)

\* Remove
ListRemove_Front(l, index) ==
    IF index < 0 \/ index >= l.size THEN Returned(l, ZeroValue, FALSE)
    ELSE PopFront(l)
ListRemove(l, index) ==
    IF index < 0 \/ index >= l.size THEN Returned(l, ZeroValue, FALSE)
    ELSE IF index = 0 THEN PopFront(l)
    ELSE IF index = l.size - 1 THEN PopBack(l)
    ELSE LET current == Advance(l, l.head, index)
             before == l.node[current].Prev
             after == l.node[current].Next IN
         Returned([l EXCEPT !.node[before].Next = after,
                            !.node[after].Prev = before,
                            !.size = @ - 1],
                  l.node[current].Value, TRUE)

\* The addresses a walk from a along the field f meets, in the order it meets
\* them.
RECURSIVE Walk(_, _, _, _)
Walk(l, a, f, fuel) ==
    IF a = 0 \/ fuel = 0 THEN <<>>
    ELSE <<a>> \o Walk(l, IF f = "Next" THEN l.node[a].Next ELSE l.node[a].Prev, f, fuel - 1)
Reverse(q) == [k \in 1..Len(q) |-> q[Len(q) + 1 - k]]

\* The same operations on a sequence; indices count from 0.
SeqInsert(q, index, value) ==
    SubSeq(q, 1, index) \o <<value>> \o SubSeq(q, index + 1, Len(q))
SeqRemove(q, index) == SubSeq(q, 1, index) \o SubSeq(q, index + 2, Len(q))

\* What an operation returned, and (want...) what the sequence says it returns.
Ret(op, index, arg, value, ok, wantVal, wantOk) ==
    [op |-> op, index |-> index, arg |-> arg, val |-> value, ok |-> ok,
     wantVal |-> wantVal, wantOk |-> wantOk]

\* What the list's callers leave alone.
ListFrame == <<readVars, cmVars, taskVars, monVars, rateVars, srvVars, clientVars, depVars, obsVars,
               regVars>>

DoPushFront(value) ==
    /\ ll.size < MaxLen
    /\ ll' = Collect(PushFront(ll, value))
    /\ abs' = <<value>> \o abs
    /\ lret' = Ret("PushFront", 0, value, ZeroValue, TRUE, ZeroValue, TRUE)
    /\ UNCHANGED ListFrame

DoPushBack(value) ==
    /\ ll.size < MaxLen
    /\ ll' = Collect(PushBack(ll, value))
    /\ abs' = Append(abs, value)
    /\ lret' = Ret("PushBack", 0, value, ZeroValue, TRUE, ZeroValue, TRUE)
    /\ UNCHANGED ListFrame

DoPopFront ==
    /\ LET r == PopFront(ll) IN
          /\ ll' = Collect(r.list)
          /\ lret' = Ret("PopFront", 0, ZeroValue, r.val, r.ok,
                        IF abs = <<>> THEN ZeroValue ELSE Head(abs), abs # <<>>)
    /\ abs' = IF abs = <<>> THEN abs ELSE Tail(abs)
    /\ UNCHANGED ListFrame

DoPopBack ==
    /\ LET r == PopBack(ll) IN
          /\ ll' = Collect(r.list)
          /\ lret' = Ret("PopBack", 0, ZeroValue, r.val, r.ok,
                        IF abs = <<>> THEN ZeroValue ELSE abs[Len(abs)], abs # <<>>)
    /\ abs' = IF abs = <<>> THEN abs ELSE SubSeq(abs, 1, Len(abs) - 1)
    /\ UNCHANGED ListFrame

DoInsert(index, value) ==
    /\ ll.size < MaxLen
    /\ LET r == Insert(ll, index, value)
           inside == index >= 0 /\ index <= Len(abs) IN
          /\ ll' = Collect(r.list)
          /\ lret' = Ret("Insert", index, value, r.val, r.ok, ZeroValue, inside)
          /\ abs' = IF inside THEN SeqInsert(abs, index, value) ELSE abs
    /\ UNCHANGED ListFrame

DoRemove(index) ==
    /\ LET r == ListRemove(ll, index)
           inside == index >= 0 /\ index < Len(abs) IN
          /\ ll' = Collect(r.list)
          /\ lret' = Ret("Remove", index, ZeroValue, r.val, r.ok,
                        IF inside THEN abs[index + 1] ELSE ZeroValue, inside)
          /\ abs' = IF inside THEN SeqRemove(abs, index) ELSE abs
    /\ UNCHANGED ListFrame

DoClear ==
    /\ ll' = Collect(Clear(ll))
    /\ abs' = <<>>
    /\ lret' = Ret("Clear", 0, ZeroValue, ZeroValue, TRUE, ZeroValue, TRUE)
    /\ UNCHANGED ListFrame

\* ---------------------------------------------------------- RateLimitedConn

\* What rlc.Conn.Read(ctx) can return: a text or a binary message with a nil
\* error, or no message with an error.
NoMessage == [typ |-> 0, data |-> "nil", err |-> "nil"]
ConnReads ==
    {[typ |-> 1, data |-> "x", err |-> "nil"],
     [typ |-> 2, data |-> "y", err |-> "nil"],
     [typ |-> 0, data |-> "nil", err |-> "EOF"],
     [typ |-> 0, data |-> "nil", err |-> "closed"]}

\* fmt.Errorf("message rate limit exceeded for %s (violations: %d)", ...)
RateLimitExceeded(violations) ==
    [typ |-> 0, data |-> "nil", err |-> "message rate limit exceeded", violations |-> violations]

\* NewRateLimitedConn: no Read yet. read tells whether the latest Read called
\* rlc.Conn.Read, under what that call returned, ret what Read returned.
NewRateLimitedConn == [read |-> FALSE, under |-> NoMessage, ret |-> NoMessage, calls |-> 0]

\* Read, with u what rlc.Conn.Read(ctx) returns if it is called: the
\* ConnectionState afterwards, whether rlc.Conn.Read was called, and the result.
Read_ReadsFirst(s, clock, u) ==
    LET check == RateLimitClientPing(s, clock) IN
    IF ~check.ok
    THEN [state |-> check.state, read |-> TRUE,
          ret |-> RateLimitExceeded(GetClientViolations(check.state))]
    ELSE [state |-> check.state, read |-> TRUE, ret |-> u]
Read(s, clock, u) ==
    LET check == RateLimitClientPing(s, clock) IN
    IF ~check.ok
    THEN [state |-> check.state, read |-> FALSE,
          ret |-> RateLimitExceeded(GetClientViolations(check.state))]
    ELSE [state |-> check.state, read |-> TRUE, ret |-> u]

\* What a Read leaves alone.
ReadFrame == <<cmVars, taskVars, monVars, srvVars, clientVars, depVars, obsVars, regVars,
               listVars, now, obsRet, obsPrev, obsEarly, rejected, obsAt, expected>>

\* One call of rlc.Read(ctx) while the connection holds u as its next result.
ConnRead(u) ==
    /\ cs.clientViolations < MaxCount
    /\ cs' = Read(cs, now, u).state
    /\ rlc' = [read |-> Read(cs, now, u).read,
               under |-> IF Read(cs, now, u).read THEN u ELSE NoMessage,
               ret |-> Read(cs, now, u).ret,
               calls |-> (rlc.calls + 1) % 2]
    /\ UNCHANGED ReadFrame

\* ------------------------------------------------------------ initial states

\* Every goroutine is about to enter RateLimitPing.
InitObservers ==
    /\ csImpl \in {"mutex", "plain"}
    /\ csMu = 0
    /\ opc = [o \in Observers |-> "lock"]
    /\ oreg = [o \in Observers |-> 0]
    /\ oearly = [o \in Observers |-> FALSE]

\* No goroutine calls RateLimitPing.
NoObservers ==
    /\ csImpl = "mutex"
    /\ csMu = 0
    /\ opc = [o \in Observers |-> "done"]
    /\ oreg = [o \in Observers |-> 0]
    /\ oearly = [o \in Observers |-> FALSE]

\* NewConnectionStateManager(): the map is empty (the variable states), no call yet.
NoRegistry ==
    /\ addrOf = [id \in {} |-> 0]
    /\ got = [id \in ConnIDs |-> [addr |-> 0, n |-> 0, banned |-> FALSE]]
    /\ nextAddr = 1
    /\ lastCall = NoCall

\* list := New()
InitList ==
    /\ ll = New
    /\ abs = <<>>
    /\ lret = Ret("New", 0, ZeroValue, ZeroValue, TRUE, ZeroValue, TRUE)

\* No Read has been called on the wrapper.
NoReader == rlc = NewRateLimitedConn

\* No monitor is compared with HeartBeat.
NoReference == ref = [NewMonitor EXCEPT !.pc = "returned"]

\* Run has not been called.
NoClient == run = [NewRun EXCEPT !.pc = "returned"]

\* The parts run on their own are at rest.
InitExt == NoClient /\ NoReference /\ NoObservers /\ NoRegistry /\ InitList /\ NoReader


InitManager ==
    \E c \in 1..MaxCeiling :
        /\ connections = NewConnectionManager(c).connections
        /\ maxPerIP = NewConnectionManager(c).maxPerIP

InitTasks ==
    /\ mu = 0
    /\ tpc = [t \in Tasks |-> "idle"]
    /\ targ = [t \in Tasks |-> NoKey]
    /\ tret = [t \in Tasks |-> "none"]
    /\ tseen = [t \in Tasks |-> -1]

\* Every task has called CheckLimit(ip) and waits for the mutex.
InitRacingTasks(ip) ==
    /\ mu = 0
    /\ tpc = [t \in Tasks |-> "cl_lock"]
    /\ targ = [t \in Tasks |-> ip]
    /\ tret = [t \in Tasks |-> "none"]
    /\ tseen = [t \in Tasks |-> -1]

InitMonitor ==
    /\ hbImpl \in {"EnhancedHeartbeat", "ClientHeartbeat"}
    /\ cfgMaxMissed \in 1..MaxMissedCfg
    /\ mon = NewMonitor
    /\ ctxDone = FALSE
    /\ probes = <<>>

\* No monitor runs.
NoMonitor ==
    /\ hbImpl = "EnhancedHeartbeat"
    /\ cfgMaxMissed = MaxMissedCfg
    /\ mon = [NewMonitor EXCEPT !.pc = "returned"]
    /\ ctxDone = FALSE
    /\ probes = <<>>

InitRate ==
    /\ now = StartTime
    /\ cs \in {ZeroConnectionState, CreatedConnectionState(StartTime)}
    /\ obsRet = [k \in Kinds |-> "none"]
    /\ obsPrev = [k \in Kinds |-> "none"]
    /\ obsEarly = [k \in Kinds |-> FALSE]
    /\ rejected = [k \in Kinds |-> FALSE]
    /\ obsAt = [k \in Kinds |-> ZeroTime]
    /\ expected = [k \in Kinds |-> 0]

\* No ConnectionState is in use.
NoRate ==
    /\ now = StartTime
    /\ cs = ZeroConnectionState
    /\ obsRet = [k \in Kinds |-> "none"]
    /\ obsPrev = [k \in Kinds |-> "none"]
    /\ obsEarly = [k \in Kinds |-> FALSE]
    /\ rejected = [k \in Kinds |-> FALSE]
    /\ obsAt = [k \in Kinds |-> ZeroTime]
    /\ expected = [k \in Kinds |-> 0]

\* The server as Start leaves it: no request yet, no ConnectionState anywhere.
InitServer ==
    /\ hpc = [h \in Handlers |-> "idle"]
    /\ remote = [h \in Handlers |-> NoKey]
    /\ conn = [h \in Handlers |-> "none"]
    /\ ctxd = [h \in Handlers |-> FALSE]
    /\ hb = [h \in Handlers |-> NoHeartbeat]
    /\ activeConnections = 0
    /\ states = [h \in {} |-> ZeroConnectionState]
    /\ exit = [h \in Handlers |-> "none"]
    /\ released = [h \in Handlers |-> 0]
    /\ stopped = FALSE

\* ------------------------------------------------------------ specifications

\* var connManager = NewConnectionManager(maxConnectionsPerIP)
InitConnManager ==
    /\ connections = NewConnectionManager(maxConnectionsPerIP).connections
    /\ maxPerIP = NewConnectionManager(maxConnectionsPerIP).maxPerIP

Init == InitConnManager /\ InitTasks /\ NoMonitor /\ NoRate /\ InitServer /\ InitExt

Next ==
    \E h \in Handlers :
        \/ \E addr \in RemoteAddrs : Arrive(h, addr)
        \/ Admission(h)
        \/ AcceptFails(h)
        \/ AcceptSucceeds(h)
        \/ ReadMessage(h)
        \/ ReadFails(h)
        \/ ReadCancelled(h)
        \/ WriteEcho(h)
        \/ WriteFails(h)
        \/ WriteCancelled(h)
        \/ Panic(h)
        \/ CloseConn(h)
        \/ DeferredCancel(h)
        \/ DeferredDecrement(h)
        \/ DeferredRelease(h)
        \/ HbTimer(h)
        \/ HbCtxDone(h)
        \/ HbPingOk(h)
        \/ HbPingErr(h)
        \/ HbExit(h)

Spec == Init /\ [][Next]_vars

\* A goroutine that can take its next step takes it: a Read or Write whose ctx is
\* cancelled returns, the deferred calls of a returning handler run, the
\* heartbeat goroutine sees ctx.Done() and runs to its cancel(), and a conn.Ping
\* returns, with a pong or with an error (cfg.Timeout bounds it).
Fairness ==
    \A h \in Handlers :
        /\ WF_vars(ReadCancelled(h))
        /\ WF_vars(WriteCancelled(h))
        /\ WF_vars(CloseConn(h))
        /\ WF_vars(DeferredCancel(h))
        /\ WF_vars(DeferredDecrement(h))
        /\ WF_vars(DeferredRelease(h))
        /\ WF_vars(HbCtxDone(h))
        /\ WF_vars(HbPingOk(h) \/ HbPingErr(h))
        /\ WF_vars(HbExit(h))

FairSpec == Init /\ [][Next]_vars /\ Fairness

\* The server with what bounds a connection's life told apart: the readTimeout of
\* the message loop and the shutdown of Start.
NextLifetime ==
    \/ Next
    \/ \E h \in Handlers : ReadTimeout(h)
    \/ Shutdown

SpecLifetime == Init /\ [][NextLifetime]_vars

InitAdmission == InitManager /\ InitTasks /\ NoMonitor /\ NoRate /\ InitServer /\ InitExt

NextAdmission ==
    \E t \in Tasks :
        \/ \E ip \in Keys : CallCheckLimit(t, ip)
        \/ CheckLimitLock(t)
        \/ CheckLimitTest(t)
        \/ CheckLimitIncrement(t)
        \/ CheckLimitUnlock(t)
        \/ \E ip \in Keys : CallRelease(t, ip)
        \/ ReleaseLock(t)
        \/ ReleaseDecrement(t)
        \/ ReleaseCleanup(t)
        \/ ReleaseUnlock(t)
        \/ \E ip \in Keys : CallGetConnectionCount(t, ip)
        \/ GetConnectionCountLock(t)
        \/ GetConnectionCountRead(t)
        \/ GetConnectionCountUnlock(t)

SpecAdmission == InitAdmission /\ [][NextAdmission]_vars

InitRace ==
    /\ InitManager
    /\ \E ip \in Keys : InitRacingTasks(ip)
    /\ NoMonitor
    /\ NoRate
    /\ InitServer
    /\ InitExt

NextRace ==
    \E t \in Tasks :
        \/ CheckLimitLock(t)
        \/ CheckLimitTest(t)
        \/ CheckLimitIncrement(t)
        \/ CheckLimitUnlock(t)

SpecRace == InitRace /\ [][NextRace]_vars

InitHeartbeat ==
    /\ connections = EmptyTable
    /\ maxPerIP = MaxCeiling
    /\ InitTasks
    /\ InitMonitor
    /\ NoRate
    /\ InitServer
    /\ InitExt

NextHeartbeat ==
    \/ MonTimer
    \/ MonCtxDone
    \/ MonPingOk
    \/ MonPingErr
    \/ CancelCtx

SpecHeartbeat == InitHeartbeat /\ [][NextHeartbeat]_vars

InitRateLimit ==
    /\ connections = EmptyTable
    /\ maxPerIP = MaxCeiling
    /\ InitTasks
    /\ NoMonitor
    /\ InitRate
    /\ InitServer
    /\ InitExt

NextRateLimit ==
    \/ ObserveOutbound
    \/ ObserveInbound
    \/ Tick

SpecRateLimit == InitRateLimit /\ [][NextRateLimit]_vars

\* Run is called; its goroutine does not exist before the dial.
InitClient ==
    /\ connections = EmptyTable
    /\ maxPerIP = MaxCeiling
    /\ InitTasks
    /\ hbImpl = "ClientHeartbeat"
    /\ cfgMaxMissed = DefaultClientMaxMissedPings
    /\ mon = [NewMonitor EXCEPT !.pc = "off"]
    /\ ctxDone = FALSE
    /\ probes = <<>>
    /\ NoRate
    /\ InitServer
    /\ run = NewRun
    /\ NoReference /\ NoObservers /\ NoRegistry /\ InitList /\ NoReader

NextClient ==
    \/ RunDialFails
    \/ RunDialSucceeds
    \/ RunCtxDone
    \/ RunRound
    \/ RunWrite
    \/ RunWriteFails
    \/ RunRead
    \/ RunReadFails
    \/ RunSleep
    \/ RunCancel
    \/ MonTimer
    \/ MonCtxDone
    \/ ClientPingOk
    \/ ClientPingErr

SpecClient == InitClient /\ [][NextClient]_vars

\* HeartBeat and, fed the same events, EnhancedHeartbeat with a tolerance that is
\* never exhausted and its metrics left out.
InitDeprecated ==
    /\ connections = EmptyTable
    /\ maxPerIP = MaxCeiling
    /\ InitTasks
    /\ hbImpl = "HeartBeat"
    /\ cfgMaxMissed = Unlimited
    /\ mon = NewMonitor
    /\ ref = NewMonitor
    /\ ctxDone = FALSE
    /\ probes = <<>>
    /\ NoRate
    /\ InitServer
    /\ NoClient /\ NoObservers /\ NoRegistry /\ InitList /\ NoReader

NextDeprecated ==
    \/ DepTimer
    \/ DepCtxDone
    \/ DepPingOk
    \/ DepPingErr
    \/ DepCancel

SpecDeprecated == InitDeprecated /\ [][NextDeprecated]_vars

\* NumObservers goroutines call RateLimitPing on a state GetOrCreate built at
\* StartTime, at once or minPingInterval later.
InitObserved ==
    /\ connections = EmptyTable
    /\ maxPerIP = MaxCeiling
    /\ InitTasks
    /\ NoMonitor
    /\ now \in {StartTime, StartTime + minPingInterval}
    /\ cs = CreatedConnectionState(StartTime)
    /\ obsRet = [k \in Kinds |-> "none"]
    /\ obsPrev = [k \in Kinds |-> "none"]
    /\ obsEarly = [k \in Kinds |-> FALSE]
    /\ rejected = [k \in Kinds |-> FALSE]
    /\ obsAt = [k \in Kinds |-> ZeroTime]
    /\ expected = [k \in Kinds |-> 0]
    /\ InitServer
    /\ InitObservers
    /\ NoClient /\ NoReference /\ NoRegistry /\ InitList /\ NoReader

NextObservers ==
    \E o \in Observers :
        \/ ObsLock(o)
        \/ ObsTest(o)
        \/ ObsLoad(o)
        \/ ObsStore(o)
        \/ ObsReset(o)
        \/ ObsStamp(o)
        \/ ObsUnlock(o)

SpecObservers == InitObserved /\ [][NextObservers]_vars

\* A ConnectionStateManager and its callers. The clock stands still: every
\* observation after the first of its kind comes too early, which is the case in
\* which states reject.
InitRegistry ==
    /\ connections = EmptyTable
    /\ maxPerIP = MaxCeiling
    /\ InitTasks
    /\ NoMonitor
    /\ NoRate
    /\ InitServer
    /\ NoRegistry
    /\ NoClient /\ NoReference /\ NoObservers /\ InitList /\ NoReader

NextRegistry ==
    \/ \E id \in ConnIDs :
          \/ GetOrCreate(id)
          \/ Remove(id)
          \/ \E k \in Kinds : ObserveState(id, k)

SpecRegistry == InitRegistry /\ [][NextRegistry]_vars

\* A LinkedList and its caller.
InitLinkedList ==
    /\ connections = EmptyTable
    /\ maxPerIP = MaxCeiling
    /\ InitTasks
    /\ NoMonitor
    /\ NoRate
    /\ InitServer
    /\ InitList
    /\ NoClient /\ NoReference /\ NoObservers /\ NoRegistry /\ NoReader

NextLinkedList ==
    \/ \E value \in Values :
          \/ DoPushFront(value)
          \/ DoPushBack(value)
          \/ \E index \in -1..(MaxLen + 1) : DoInsert(index, value)
    \/ DoPopFront
    \/ DoPopBack
    \/ \E index \in -1..(MaxLen + 1) : DoRemove(index)
    \/ DoClear

SpecLinkedList == InitLinkedList /\ [][NextLinkedList]_vars

\* RateLimitedConn.Read on its own: calls of Read, and time passing.
NextRead ==
    \/ \E u \in ConnReads : ConnRead(u)
    \/ Tick

SpecRead == InitRateLimit /\ [][NextRead]_vars

\* -------------------------------------------------------------------- claims

\* C1 (SpecAdmission): under every interleaving of CheckLimit and Release calls
\* the count of every address stays within 0..maxPerIP, and a CheckLimit that
\* returns true found the count below maxPerIP right before its increment and
\* leaves it at most maxPerIP.
C1_CountWithinCeiling ==
    /\ \A ip \in DOMAIN connections :
          connections[ip] >= 0 /\ connections[ip] <= maxPerIP
    /\ \A t \in Tasks :
          (tpc[t] = "cl_unlock" /\ tret[t] = "true") =>
              /\ tseen[t] >= 0
              /\ tseen[t] < maxPerIP
              /\ Count(connections, targ[t]) <= maxPerIP

\* A CheckLimit has just returned true by taking the last free slot of a ceiling
\* of at least 2, while another task is inside Release.
C1_Witness ==
    \E t, u \in Tasks :
        /\ tpc[t] = "cl_unlock" /\ tret[t] = "true"
        /\ maxPerIP >= 2
        /\ tseen[t] = maxPerIP - 1
        /\ tpc[u] = "rl_lock" /\ targ[u] = targ[t]

\* C2 (SpecRace): from the empty table with ceiling k, when n > k tasks race on
\* CheckLimit(a) and nothing is released, exactly k calls return true and n - k
\* return false; at no time have two callers passed the test without one of
\* them having incremented.
C2_ExactlyCeilingAdmitted ==
    /\ Cardinality({t \in Tasks : tpc[t] = "cl_inc"}) <= 1
    /\ (\A t \in Tasks : tpc[t] = "idle") =>
          /\ Cardinality({t \in Tasks : tret[t] = "true"}) = maxPerIP
          /\ Cardinality({t \in Tasks : tret[t] = "false"})
                = Cardinality(Tasks) - maxPerIP

\* Three or more racing calls have all returned under ceiling 2: some were
\* admitted and some were rejected.
C2_Witness ==
    /\ maxPerIP = 2
    /\ Cardinality(Tasks) >= 3
    /\ \A t \in Tasks : tpc[t] = "idle" /\ tret[t] # "none"
    /\ \E t \in Tasks : tret[t] = "false"

\* The handlers that are past websocket.Accept and before their deferred
\* activeConnections.Add(-1).
Counted == {h \in Handlers : hpc[h] \in {"read", "write", "close", "cancel", "dec"}}

\* C3 (Spec): an admitted invocation of handleWebSocket releases its slot exactly
\* once on every way out (handshake failure, read or write error, cancellation by
\* the heartbeat goroutine, panic in the loop) and not before it leaves; a
\* rejected one releases nothing; the active counter counts exactly the
\* invocations between Accept and the deferred decrement; so whenever no handler
\* runs the admission table is empty and the active count is 0.
C3_TeardownExactlyOnce ==
    /\ \A h \in Handlers :
          /\ released[h] <= 1
          /\ Holding(h) => released[h] = 0
          /\ (hpc[h] = "done" /\ exit[h] \in {"handshake", "loop"}) => released[h] = 1
          /\ (hpc[h] = "done" /\ exit[h] = "429") => released[h] = 0
    /\ activeConnections = Cardinality(Counted)
    /\ (\A h \in Handlers : hpc[h] \in {"idle", "done"}) =>
          /\ connections = EmptyTable
          /\ activeConnections = 0

\* No handler runs any more; one invocation failed its handshake and another left
\* its message loop, each after having been admitted, each released once.
C3_Witness ==
    /\ \A h \in Handlers : hpc[h] = "done"
    /\ \E h, g \in Handlers :
          /\ exit[h] = "handshake" /\ released[h] = 1
          /\ exit[g] = "loop" /\ released[g] = 1 /\ conn[g] = "closed" /\ ctxd[g]
    /\ connections = EmptyTable
    /\ activeConnections = 0

\* The number of failed probes at the end of the history.
RECURSIVE Streak(_)
Streak(s) ==
    IF s = <<>> \/ s[Len(s)] # "err"
    THEN 0
    ELSE 1 + Streak(SubSeq(s, 1, Len(s) - 1))

\* C4 (SpecHeartbeat): in both monitors missedPings is the number of consecutive
\* failed probes; the monitor returns the "max missed pings exceeded" failure
\* exactly when that number reaches cfg.MaxMissedPings, having sent no probe
\* after it; after a successful probe the counter is 0 and the monitor has not
\* failed.
C4_MissThreshold ==
    /\ mon.missedPings = Streak(probes)
    /\ mon.PingsSent = Len(probes)
    /\ (mon.pc # "returned") => Streak(probes) < cfgMaxMissed
    /\ (Streak(probes) >= cfgMaxMissed) <=> (mon.result = "failed")
    /\ (mon.result = "failed") =>
          mon.pc = "returned" /\ Streak(probes) = cfgMaxMissed
    /\ (probes # <<>> /\ probes[Len(probes)] = "ok") =>
          /\ mon.missedPings = 0
          /\ mon.result # "failed"
          /\ (~ctxDone => mon.pc \in {"select", "ping"})

\* With MaxMissedPings = 2: a failure, a success that reset the counter, then two
\* failures in a row that ended the monitor.
C4_Witness ==
    /\ cfgMaxMissed = 2
    /\ probes = <<"err", "ok", "err", "err">>
    /\ mon.result = "failed"

\* C5 (SpecHeartbeat): when the owning context is cancelled while the monitor
\* runs, the monitor returns the cancellation error, never the "max missed pings
\* exceeded" failure.
C5_CancelReportsCancellation ==
    (ctxDone /\ mon.pc = "returned") => mon.result = "cancelled"

AdmittedFromIP(ip) == {h \in Handlers : Holding(h) /\ remote[h].ip = ip}

\* C8 (Spec): at no time do more than maxConnectionsPerIP invocations of
\* handleWebSocket from the same client IP address hold a slot, whatever source
\* ports their connections use.
C8_CeilingPerClientIP ==
    \A ip \in IPs : Cardinality(AdmittedFromIP(ip)) <= maxPerIP

\* C9 (Spec): a message that the loop has read and is about to echo was read
\* after a rate-limit check on the connection's own ConnectionState: the state
\* exists, the check has stamped lastClientPing, and it did not reject.
C9_ReadIsRateLimited ==
    \A h \in Handlers :
        hpc[h] = "write" =>
            /\ h \in DOMAIN states
            /\ ~IsZero(states[h].lastClientPing)
            /\ states[h].clientViolations <= maxViolations

\* C14 (Spec): an invocation whose CheckLimit returned false has answered 429
\* and returned: the rejecting step changes neither the admission table nor the
\* active counter, and the invocation has no connection, no ctx cancelled, no
\* heartbeat goroutine and no Release call until net/http calls the handler for
\* a new request.
C14_RejectStopsHandler ==
    /\ [](\A h \in Handlers :
             exit[h] = "429" =>
                 /\ hpc[h] = "done"
                 /\ conn[h] = "none"
                 /\ ~ctxd[h]
                 /\ hb[h].pc = "off"
                 /\ released[h] = 0)
    /\ [][\A h \in Handlers :
             (hpc[h] = "check" /\ exit'[h] = "429") =>
                 /\ connections' = connections
                 /\ activeConnections' = activeConnections
                 /\ hb' = hb /\ conn' = conn /\ released' = released]_vars
    /\ [][\A h \in Handlers :
             (exit[h] = "429" /\ <<hpc[h], conn[h], hb[h], released[h]>>
                                    # <<hpc'[h], conn'[h], hb'[h], released'[h]>>) =>
                 (hpc'[h] = "check" /\ exit'[h] = "none")]_vars

\* An attempt has been rejected while another connection of its address is past
\* its handshake: the table and the active counter count that connection only.
C14_Witness ==
    \E h, g \in Handlers :
        /\ exit[h] = "429" /\ hpc[h] = "done" /\ hb[h].pc = "off"
        /\ remote[g] = remote[h] /\ g \in Counted
        /\ activeConnections = 1
        /\ Count(connections, ClientKey(remote[h])) = 1

\* C15 (SpecAdmission): a CheckLimit(a) call that returns false leaves the
\* admission table as it found it: none of its steps under the mutex, from Lock
\* to Unlock, changes the count of any address or the set of addresses present.
C15_RejectLeavesTable ==
    [][\A t \in Tasks :
          \/ (tpc[t] = "cl_lock" /\ tpc'[t] = "cl_test")
          \/ (tpc[t] = "cl_test" /\ tpc'[t] = "cl_unlock")
          \/ (tpc[t] = "cl_unlock" /\ tret[t] = "false" /\ tpc'[t] = "idle")
          => /\ connections' = connections
             /\ (tpc'[t] = "cl_unlock" => tret'[t] = "false")]_vars

\* A CheckLimit has found its address at the ceiling and is about to return
\* false; the table holds that address at the ceiling and another address.
C15_Witness ==
    \E t \in Tasks :
        /\ tpc[t] = "cl_unlock" /\ tret[t] = "false"
        /\ Count(connections, targ[t]) = maxPerIP
        /\ \E k \in DOMAIN connections : k # targ[t]

\* C16 (SpecAdmission): outside the two statements of Release (between its
\* decrement and its delete, under the mutex) the admission table holds no
\* address with count 0: GetConnectionCount, a rejected CheckLimit and a Release
\* of an untracked address create no entry, a Release that reaches 0 deletes it.
C16_NoZeroEntries ==
    /\ (\A t \in Tasks : tpc[t] # "rl_del") =>
          \A ip \in DOMAIN connections : connections[ip] >= 1
    /\ \A t \in Tasks :
          tpc[t] \in {"rl_unlock", "gc_unlock"} =>
              (targ[t] \in DOMAIN connections <=> Count(connections, targ[t]) >= 1)
    /\ \A t \in Tasks :
          tpc[t] = "gc_unlock" => tseen[t] = Count(connections, targ[t])

\* A Release has just deleted the entry of its address while a
\* GetConnectionCount of an untracked address waits for the mutex and another
\* address is still tracked.
C16_Witness ==
    \E t, u \in Tasks :
        /\ tpc[t] = "rl_unlock" /\ targ[t] \notin DOMAIN connections
        /\ tpc[u] = "gc_lock" /\ targ[u] \notin DOMAIN connections
        /\ connections # EmptyTable

\* The connections that are live: the handler is in its message loop or the
\* heartbeat monitor of the connection still runs.
Live(h) == hpc[h] \in {"read", "write"} \/ hb[h].pc \in {"select", "ping"}

\* C17 (SpecLifetime): once the ctx passed to Start is cancelled, the ctx of
\* every live connection is cancelled.
C17_ShutdownCancelsConnections ==
    stopped => \A h \in Handlers : Live(h) => ctxd[h]

\* C18 (Spec): the slot of a connection is released only after the heartbeat
\* monitor of the connection has stopped: an invocation that has made its
\* Release call has no monitor in its select or in a probe.
C18_ReleaseAfterHeartbeatStops ==
    \A h \in Handlers :
        released[h] >= 1 => hb[h].pc \in {"off", "returned", "exited"}

\* C19 (FairSpec): once the ctx of a connection is cancelled, the handler leaves
\* its message loop and the heartbeat monitor returns, wherever each of them
\* was: in conn.Read, in conn.Write, in conn.Ping or in the select on the timer.
C19_CancelStopsBoth ==
    \A h \in Handlers :
        ctxd[h] ~> (hpc[h] \notin {"read", "write"}
                      /\ hb[h].pc \in {"returned", "exited"})

\* The ctx of a connection was cancelled while its monitor, one failed probe
\* behind it, was in its select: the monitor has returned ctx.Err() and the
\* handler has returned.
C19_Witness ==
    \E h \in Handlers :
        /\ ctxd[h]
        /\ hpc[h] = "done" /\ exit[h] = "loop"
        /\ hb[h].pc = "returned" /\ hb[h].result = "cancelled"
        /\ hb[h].missedPings = 1

\* C20 (SpecLifetime): the message loop of a connection is not ended by the
\* passing of time while the probes succeed: when readTimeout ends the loop the
\* monitor has a failed probe behind it or the ctx is cancelled.
C20_OpenWhileProbesSucceed ==
    \A h \in Handlers :
        (hpc[h] = "close" /\ exit[h] = "timeout") =>
            (hb[h].missedPings > 0 \/ hb[h].result = "failed" \/ ctxd[h])

\* The last n probes all failed.
RECURSIVE LastFailed(_, _)
LastFailed(s, n) ==
    IF n = 0 THEN TRUE
    ELSE /\ Len(s) >= 1
         /\ s[Len(s)] = "err"
         /\ LastFailed(SubSeq(s, 1, Len(s) - 1), n - 1)

\* C21 (SpecHeartbeat): with MaxMissedPings >= 2 a monitor has returned the
\* failure only when its last MaxMissedPings probes all failed, with no
\* successful probe among them; after one failed probe that follows a success
\* or nothing the monitor is still running.
C21_SingleFailureTolerated ==
    cfgMaxMissed >= 2 =>
        /\ (mon.result = "failed") =>
               (Len(probes) >= cfgMaxMissed /\ LastFailed(probes, cfgMaxMissed))
        /\ (LastFailed(probes, 1) /\ ~LastFailed(probes, 2)) =>
               (mon.result # "failed" /\ (~ctxDone => mon.pc \in {"select", "ping"}))

\* A ClientHeartbeat monitor with MaxMissedPings = 2 waits on its timer after a
\* successful probe and one failed probe.
C21_Witness ==
    /\ hbImpl = "ClientHeartbeat"
    /\ cfgMaxMissed = 2
    /\ probes = <<"ok", "err">>
    /\ mon.pc = "select"
    /\ mon.missedPings = 1

\* A step of invocation h, or of its goroutine, on the way out after an error: the
\* loop has ended on a read error, a write error, a cancellation or a panic and
\* the handler runs its close and its deferred calls, or the monitor has returned
\* its failure and the goroutine cancels the ctx.
ErrorStep(h) ==
    \/ hpc'[h] # hpc[h] /\ exit'[h] = "loop"
    \/ hb[h].pc = "returned" /\ hb[h].result = "failed" /\ hb'[h].pc = "exited"

\* C22 (Spec): a step that ends invocation h after an error leaves every other
\* invocation's position, connection, ctx and monitor as they were, leaves the
\* count of every other address as it was, lowers the count of h's own address
\* by exactly 1 at the deferred Release and at no other step, and leaves the
\* ceiling and the listener alone; an attempt that reaches CheckLimit after some
\* invocation ended this way is admitted exactly when the count of its address
\* is below the ceiling.
C22_ErrorIsIsolated ==
    [][/\ \A h \in Handlers :
             ErrorStep(h) =>
                 /\ \A g \in Handlers \ {h} :
                       /\ hpc'[g] = hpc[g]
                       /\ conn'[g] = conn[g]
                       /\ ctxd'[g] = ctxd[g]
                       /\ hb'[g] = hb[g]
                 /\ \A key \in Keys \ {ClientKey(remote[h])} :
                       Count(connections', key) = Count(connections, key)
                 /\ Count(connections', ClientKey(remote[h]))
                       = Count(connections, ClientKey(remote[h]))
                           - (IF hpc[h] = "release" /\ hpc'[h] = "done" THEN 1 ELSE 0)
                 /\ maxPerIP' = maxPerIP
                 /\ stopped' = stopped
                 /\ activeConnections' = activeConnections
                                           - (IF hpc[h] = "dec" /\ hpc'[h] = "release" THEN 1 ELSE 0)
       /\ \A g \in Handlers :
             ((\E h \in Handlers \ {g} : hpc[h] = "done" /\ exit[h] = "loop")
                 /\ hpc[g] = "check" /\ hpc'[g] # "check") =>
                 ((hpc'[g] = "accept")
                     <=> (Count(connections, ClientKey(remote[g])) < maxPerIP))]_vars

\* An invocation has ended after an error and has released its slot; a later
\* attempt from the same address has been admitted, its connection is open, its
\* ctx is live and its monitor waits on its timer.
C22_Witness ==
    \E h \in Handlers : \E g \in Handlers \ {h} :
        /\ hpc[h] = "done" /\ exit[h] = "loop" /\ released[h] = 1
        /\ remote[g] = remote[h]
        /\ hpc[g] = "read" /\ conn[g] = "open" /\ ~ctxd[g] /\ hb[g].pc = "select"
        /\ Count(connections, ClientKey(remote[g])) = 1

\* C23 (SpecClient): once the client's ClientHeartbeat has returned its
\* max-missed failure, Run sends no further message: it stops its send/receive
\* loop and leaves through the close of the connection.
C23_HeartbeatFailureStopsRun ==
    [][(mon.result = "failed") => ~(run.pc = "write" /\ run'.pc = "read")]_vars

\* C24 (SpecObservers): when every one of NumObservers goroutines has returned
\* from RateLimitPing and each found its ping too early, the violation counter
\* has risen from 0 by exactly NumObservers: no increment is lost.
C24_NoLostUpdate ==
    (\A o \in Observers : opc[o] = "done" /\ oearly[o]) => cs.violations = NumObservers

\* C25 (SpecRegistry): Remove(id) leaves no entry for id and touches no other
\* entry; a GetOrCreate that finds no entry stores a newly allocated state with
\* both violation counters 0, and the observations made on it are accepted as
\* long as they are no more than maxViolations; a GetOrCreate that finds an entry
\* returns the stored object and changes nothing; an entry keeps its object for
\* as long as it is present.
C25_NoBanSurvivesRemove ==
    /\ [](/\ (lastCall.op = "Remove") => (lastCall.id \notin DOMAIN states)
          /\ DOMAIN addrOf = DOMAIN states
          /\ \A id \in DOMAIN states : got[id].addr = addrOf[id]
          /\ (lastCall.op = "Observe" /\ got[lastCall.id].n <= maxViolations)
                => lastCall.ok)
    /\ [][\A id \in ConnIDs :
             /\ (id \notin DOMAIN states /\ id \in DOMAIN states') =>
                   /\ states'[id].violations = 0
                   /\ states'[id].clientViolations = 0
                   /\ addrOf'[id] >= nextAddr
                   /\ nextAddr' > addrOf'[id]
                   /\ got'[id].addr = addrOf'[id]
                   /\ got'[id].n = 0
             /\ (id \in DOMAIN states /\ id \in DOMAIN states') =>
                   /\ addrOf'[id] = addrOf[id]
                   /\ (lastCall'.op = "GetOrCreate" /\ lastCall'.id = id) =>
                         (states' = states /\ got'[id].addr = addrOf[id])
             /\ (id \in DOMAIN states /\ id \notin DOMAIN states') =>
                   \A other \in ConnIDs \ {id} :
                       /\ (other \in DOMAIN states) <=> (other \in DOMAIN states')
                       /\ (other \in DOMAIN states) =>
                             (states'[other] = states[other]
                                 /\ addrOf'[other] = addrOf[other])]_vars

\* A state of an ID rejected a ping and was removed; GetOrCreate built the ID a
\* new state, whose first observation has just been accepted, while the state of
\* the other ID is still the banned one it was.
C25_Witness ==
    \E id \in ConnIDs : \E other \in ConnIDs \ {id} :
        /\ got[id].banned
        /\ id \in DOMAIN states
        /\ addrOf[id] = MaxAddr
        /\ got[id].n = 1
        /\ lastCall = [op |-> "Observe", id |-> id, ok |-> TRUE]
        /\ states[id].violations <= 1 /\ states[id].clientViolations = 0
        /\ other \in DOMAIN states
        /\ states[other].violations > maxViolations

\* C26 (SpecDeprecated): HeartBeat is at every moment where EnhancedHeartbeat
\* with a tolerance that is never exhausted is, fed the same events: it goes on
\* probing after a failed probe, and it has returned only after its ctx was
\* cancelled.
C26_DeprecatedToleratesFailures ==
    /\ mon.pc = ref.pc
    /\ (mon.pc = "returned") => ctxDone

\* C27 (SpecRateLimit): in every state the rate limiter reaches, RateLimitPing
\* leaves lastClientPing and clientViolations as they are and
\* RateLimitClientPing leaves lastPing and violations as they are, and what an
\* observation of one kind returns is the same whether or not an observation of
\* the other kind, accepted or rejected, was made right before it.
C27_DirectionsAreIndependent ==
    LET out == RateLimitPing(cs, now)
        in == RateLimitClientPing(cs, now) IN
        /\ out.state.lastClientPing = cs.lastClientPing
        /\ out.state.clientViolations = cs.clientViolations
        /\ in.state.lastPing = cs.lastPing
        /\ in.state.violations = cs.violations
        /\ RateLimitClientPing(out.state, now).ok = in.ok
        /\ RateLimitPing(in.state, now).ok = out.ok
        /\ RateLimitClientPing(out.state, now).state.clientViolations
              = in.state.clientViolations
        /\ RateLimitPing(in.state, now).state.violations = out.state.violations

\* The outbound direction has just rejected a ping and the inbound direction has
\* accepted one after that reject, with no inbound violation on record.
C27_Witness ==
    /\ obsRet["outbound"] = "false"
    /\ cs.violations > maxViolations
    /\ obsRet["inbound"] = "true"
    /\ obsAt["inbound"] > obsAt["outbound"]
    /\ cs.clientViolations = 0
    /\ ~rejected["inbound"]

\* C28 (SpecHeartbeat): no step lowers PingsSent, PongsReceived or FailedPings,
\* and whenever the monitor waits in its select or has returned, PingsSent =
\* PongsReceived + FailedPings, in the snapshot it returns too.
C28_MetricsAddUp ==
    /\ []((mon.pc \in {"select", "returned"}) =>
              mon.PingsSent = mon.PongsReceived + mon.FailedPings)
    /\ [][/\ mon'.PingsSent >= mon.PingsSent
          /\ mon'.PongsReceived >= mon.PongsReceived
          /\ mon'.FailedPings >= mon.FailedPings
          /\ (Len(probes') > Len(probes)) => mon'.PingsSent = mon.PingsSent + 1]_vars

\* The monitor has returned its failure with four probes sent: two successes and
\* two failures.
C28_Witness ==
    /\ mon.pc = "returned"
    /\ mon.result = "failed"
    /\ mon.PingsSent = 4
    /\ mon.PongsReceived = 2
    /\ mon.FailedPings = 2

\* C29 (Spec): the value the health endpoint reads, activeConnections, is the
\* number of invocations that are past activeConnections.Add(1), which follows
\* the handshake, and not yet past their deferred activeConnections.Add(-1); it
\* is never negative; the handshake of a connection raises it by 1, the end of
\* that connection lowers it by 1, and no other step changes it.
C29_HealthCountsOpenConnections ==
    /\ [](/\ activeConnections = Cardinality(Counted)
          /\ activeConnections >= 0
          /\ activeConnections <= NumConns)
    /\ [][/\ \A h \in Handlers :
                /\ (hpc[h] = "accept" /\ hpc'[h] = "read") =>
                      activeConnections' = activeConnections + 1
                /\ (hpc[h] = "dec" /\ hpc'[h] = "release") =>
                      activeConnections' = activeConnections - 1
          /\ (\A h \in Handlers :
                 ~(hpc[h] = "accept" /\ hpc'[h] = "read")
                     /\ ~(hpc[h] = "dec" /\ hpc'[h] = "release")) =>
                activeConnections' = activeConnections]_vars

\* One connection has ended after an error and another is open: the count is 1
\* again, as it was before the first connection.
C29_Witness ==
    \E h \in Handlers : \E g \in Handlers \ {h} :
        /\ hpc[h] = "done" /\ exit[h] = "loop" /\ conn[h] = "closed"
        /\ hpc[g] = "write" /\ conn[g] = "open"
        /\ activeConnections = 1

\* C30 (SpecLinkedList): after every sequence of PushFront, PushBack, PopFront,
\* PopBack, Insert, Remove and Clear, ToSlice is the sequence the same operations
\* leave, Size is its length, IsEmpty holds exactly when it is empty, Front and
\* Back return its first and last element (zero value and false when empty), and
\* the operation just made returned what the sequence says: the element taken
\* off and true, or the zero value and false.
C30_ListIsTheSequence ==
    /\ ToSlice(ll) = abs
    /\ Size(ll) = Len(abs)
    /\ IsEmpty(ll) <=> (abs = <<>>)
    /\ Front(ll).ok = (abs # <<>>)
    /\ Front(ll).val = (IF abs = <<>> THEN ZeroValue ELSE Head(abs))
    /\ Back(ll).ok = (abs # <<>>)
    /\ Back(ll).val = (IF abs = <<>> THEN ZeroValue ELSE abs[Len(abs)])
    /\ lret.ok = lret.wantOk
    /\ lret.val = lret.wantVal

\* Remove(1) has just taken the middle element "b" out of a list of three, which
\* now reads "a", "a".
C30_Witness ==
    /\ lret.op = "Remove" /\ lret.index = 1 /\ lret.ok /\ lret.val = "b"
    /\ abs = <<"a", "a">>
    /\ ToSlice(ll) = <<"a", "a">>

\* C31: Insert(i, v) succeeds exactly when 0 <= i <= Size(); then v is at index
\* i, the elements that were at indices >= i are one index further in the same
\* order, those before i stay, and Size is one more; otherwise it returns false
\* and the list is as it was.
C31_InsertAtIndex ==
    [][lret'.op = "Insert" =>
          LET i == lret'.index
              before == ToSlice(ll)
              after == ToSlice(ll') IN
          /\ lret'.ok <=> (0 <= i /\ i <= Size(ll))
          /\ lret'.ok =>
                /\ Size(ll') = Size(ll) + 1
                /\ Len(after) = Len(before) + 1
                /\ after[i + 1] = lret'.arg
                /\ \A k \in 1..Len(before) :
                      after[IF k <= i THEN k ELSE k + 1] = before[k]
          /\ ~lret'.ok => ll' = ll]_vars
C31_Witness ==
    /\ lret.op = "Insert" /\ lret.ok /\ lret.index = 1
    /\ Size(ll) = 3 /\ ToSlice(ll)[2] = "b" /\ ToSlice(ll)[1] = "a" /\ ToSlice(ll)[3] = "a"

\* Insert(i, v) and then Remove(i), from the list as it is.
InsertThenRemove(i, v) == ListRemove(Insert(ll, i, v).list, i)

\* C32: Remove(i) succeeds exactly when 0 <= i < Size(); then it returns the
\* element at i, the others keep their order and Size is one less; otherwise it
\* returns the zero value and false and the list is as it was. Insert(i, v)
\* followed by Remove(i) returns v and gives the list back.
C32_RemoveAtIndex ==
    /\ [](Size(ll) < MaxLen =>
             \A i \in 0..Size(ll), v \in Values :
                /\ InsertThenRemove(i, v).ok
                /\ InsertThenRemove(i, v).val = v
                /\ ToSlice(InsertThenRemove(i, v).list) = ToSlice(ll)
                /\ Size(InsertThenRemove(i, v).list) = Size(ll))
    /\ [][lret'.op = "Remove" =>
             LET i == lret'.index
                 before == ToSlice(ll)
                 after == ToSlice(ll') IN
             /\ lret'.ok <=> (0 <= i /\ i < Size(ll))
             /\ lret'.ok =>
                   /\ lret'.val = before[i + 1]
                   /\ Size(ll') = Size(ll) - 1
                   /\ Len(after) = Len(before) - 1
                   /\ \A k \in 1..Len(after) :
                         after[k] = before[IF k <= i THEN k ELSE k + 1]
             /\ ~lret'.ok => lret'.val = ZeroValue /\ ll' = ll]_vars
C32_Witness ==
    /\ lret.op = "Remove" /\ lret.ok /\ lret.index = 1 /\ lret.val = "b"
    /\ ToSlice(ll) = <<"a", "a">>

\* C33: on an empty list PopFront, PopBack, Front and Back return false and the
\* list stays empty with Size 0, and a push on it gives what the same push on
\* a new list gives.
C33_EmptyListIsSafe ==
    /\ [](IsEmpty(ll) =>
             /\ ~Front(ll).ok /\ ~Back(ll).ok
             /\ Front(ll).list = ll /\ Back(ll).list = ll
             /\ ~PopFront(ll).ok /\ ~PopBack(ll).ok
             /\ PopFront(ll).list = ll /\ PopBack(ll).list = ll
             /\ ToSlice(ll) = <<>>
             /\ \A v \in Values :
                   /\ Collect(PushFront(ll, v)) = Collect(PushFront(New, v))
                   /\ Collect(PushBack(ll, v)) = Collect(PushBack(New, v)))
    /\ [][(IsEmpty(ll) /\ lret'.op \in {"PopFront", "PopBack"}) =>
             ~lret'.ok /\ IsEmpty(ll') /\ Size(ll') = 0]_vars
C33_Witness ==
    /\ IsEmpty(ll)
    /\ lret.op \in {"PopFront", "PopBack"}
    /\ ~lret.ok

\* The indices, counted from 0, of the elements of a sequence that are in match.
Matches(q, match) == {k \in 0..(Len(q) - 1) : q[k + 1] \in match}
Least(S) == CHOOSE k \in S : \A j \in S : k <= j

\* C34: Find returns the smallest index whose element satisfies the predicate,
\* with true, or -1 and false when there is none. ForEach calls its function on
\* the elements in list order and stops right after the first call that returns
\* false, so the calls are as many as the position of that element, or Size
\* when no call returns false.
C34_FindAndForEach ==
    \A match \in SUBSET Values :
       LET q == ToSlice(ll)
           hits == Matches(q, match)
           calls == ForEach(ll, ll.head, match, MaxLen + 2) IN
       /\ Len(q) = Size(ll)
       /\ Find(ll, match) = IF hits = {} THEN [index |-> -1, ok |-> FALSE]
                            ELSE [index |-> Least(hits), ok |-> TRUE]
       /\ Len(calls) = IF hits = {} THEN Size(ll) ELSE Least(hits) + 1
       /\ calls = SubSeq(q, 1, Len(calls))
C34_Witness ==
    /\ ToSlice(ll) = <<"a", "b", "b">>
    /\ Find(ll, {"b"}) = [index |-> 1, ok |-> TRUE]
    /\ ForEach(ll, ll.head, {"b"}, MaxLen + 2) = <<"a", "b">>
    /\ ~Find(ll, {}).ok

\* C40: head is nil exactly when tail is nil exactly when size is 0; head has no
\* Prev and tail no Next; a node is the Prev of its Next; the nodes met from
\* head are size many; the walk back from tail is the reverse of the walk from
\* head.
C40_ChainIsConsistent ==
    LET forward == Walk(ll, ll.head, "Next", MaxLen + 2)
        backward == Walk(ll, ll.tail, "Prev", MaxLen + 2) IN
    /\ (ll.head = 0) <=> (ll.tail = 0)
    /\ (ll.head = 0) <=> (ll.size = 0)
    /\ ll.head # 0 => ll.node[ll.head].Prev = 0
    /\ ll.tail # 0 => ll.node[ll.tail].Next = 0
    /\ \A k \in 1..Len(forward) :
          ll.node[forward[k]].Next # 0 => ll.node[ll.node[forward[k]].Next].Prev = forward[k]
    /\ Len(forward) = ll.size
    /\ backward = Reverse(forward)
C40_Witness ==
    /\ ll.size = 3
    /\ lret.op = "Insert" /\ lret.index = 1
    /\ Walk(ll, ll.head, "Next", MaxLen + 2) # <<1, 2, 3>>
    /\ Walk(ll, ll.tail, "Prev", MaxLen + 2) = Reverse(Walk(ll, ll.head, "Next", MaxLen + 2))

\* C38: when the rate-limit check inside Read returns false, Read returns an
\* error and does not call the underlying connection's Read; when the check
\* returns true, Read returns exactly what the underlying Read returned.
C38_ReadChecksFirst ==
    [][rlc'.calls # rlc.calls =>
          IF RateLimitClientPing(cs, now).ok
          THEN /\ rlc'.read
               /\ rlc'.under \in ConnReads
               /\ rlc'.ret = rlc'.under
          ELSE /\ ~rlc'.read
               /\ rlc'.ret.err = "message rate limit exceeded"
               /\ rlc'.ret.typ = 0 /\ rlc'.ret.data = "nil"
               /\ rlc'.ret.violations = GetClientViolations(cs')]_vars
C38_Witness ==
    /\ ~rlc.read
    /\ rlc.ret.err = "message rate limit exceeded"
    /\ rlc.ret.violations = maxViolations + 1

\* A step that is one call of RateLimitClientPing: every call writes
\* lastClientPing or clientViolations.
InboundStep ==
    \/ cs'.lastClientPing # cs.lastClientPing
    \/ cs'.clientViolations # cs.clientViolations

\* C39: a rejected inbound observation records its timestamp, and the inbound
\* observation that follows a rejected one less than minPingInterval after it is
\* rejected too; so after a reject the observations keep returning false until
\* one comes at least minPingInterval after the observation before it.
C39_FloodStaysRejected ==
    [][InboundStep =>
          /\ obsRet'["inbound"] = "false" => cs'.lastClientPing = now
          /\ (obsRet["inbound"] = "false"
                 /\ Since(obsAt["inbound"], now) < minPingInterval)
                => obsRet'["inbound"] = "false"]_vars
C39_Witness ==
    /\ obsPrev["inbound"] = "false"
    /\ obsRet["inbound"] = "false"
    /\ cs.clientViolations = maxViolations + 2
    /\ cs.lastClientPing = obsAt["inbound"]
    /\ obsAt["inbound"] >= StartTime + 2 * ClockStep

\* C35 (Spec): the count of a key in the admission table is the number of
\* invocations of handleWebSocket with that key that are between their
\* successful CheckLimit and their deferred Release, a key without such an
\* invocation has no entry, and an invocation whose CheckLimit returned false
\* is at no time on its way to a Release call and has made none.
C35_CountIsInvocationsInside ==
    /\ \A key \in Keys :
          /\ Count(connections, key) = Cardinality(Holders(key))
          /\ (key \in DOMAIN connections) <=> (Holders(key) # {})
    /\ DOMAIN connections \subseteq Keys
    /\ \A h \in Handlers :
          exit[h] = "429" => (~Holding(h) /\ released[h] = 0)
C35_Witness ==
    \E h \in Handlers : \E g \in Handlers \ {h} :
        /\ remote[g] = remote[h]
        /\ hpc[h] = "release" /\ exit[h] = "loop" /\ released[h] = 0
        /\ hpc[g] = "done" /\ exit[g] = "429" /\ released[g] = 0
        /\ Count(connections, ClientKey(remote[h])) = 1

\* C36 (Spec): when websocket.Accept fails after CheckLimit admitted, the
\* failing step changes neither the active counter nor the table and starts no
\* heartbeat monitor; the only step the invocation then takes is the deferred
\* Release, which lowers the count of its key by 1 and leaves the active counter
\* alone; the invocation has no connection and no monitor at any time.
C36_HandshakeFailureReleases ==
    /\ [](\A h \in Handlers :
             exit[h] = "handshake" =>
                 /\ hpc[h] \in {"release", "done"}
                 /\ released[h] = (IF hpc[h] = "done" THEN 1 ELSE 0)
                 /\ hb[h].pc = "off"
                 /\ conn[h] = "none")
    /\ [][\A h \in Handlers :
             /\ (hpc[h] = "accept" /\ exit'[h] = "handshake") =>
                   /\ activeConnections' = activeConnections
                   /\ connections' = connections
                   /\ hb' = hb
             /\ (exit[h] = "handshake" /\ hpc[h] = "release" /\ hpc'[h] # hpc[h]) =>
                   /\ hpc'[h] = "done"
                   /\ Count(connections', ClientKey(remote[h]))
                         = Count(connections, ClientKey(remote[h])) - 1
                   /\ activeConnections' = activeConnections
                   /\ hb' = hb]_vars
C36_Witness ==
    \E h \in Handlers : \E g \in Handlers \ {h} :
        /\ exit[h] = "handshake" /\ hpc[h] = "done" /\ released[h] = 1
        /\ hb[h].pc = "off"
        /\ hpc[g] = "read" /\ remote[g] # remote[h]
        /\ activeConnections = 1
        /\ Count(connections, ClientKey(remote[h])) = 0
        /\ Count(connections, ClientKey(remote[g])) = 1

\* The sum of the counts of the admission table.
RECURSIVE TotalOver(_, _)
TotalOver(m, S) ==
    IF S = {} THEN 0
    ELSE LET k == CHOOSE x \in S : TRUE IN m[k] + TotalOver(m, S \ {k})
TotalAdmitted(m) == TotalOver(m, DOMAIN m)

\* C37 (Spec): the active counter is at most the sum of the counts of the
\* admission table, and for every key the invocations that are counted active
\* are at most the count of the key: an invocation is counted only after it
\* took its slot, and it is no longer counted when it releases the slot.
C37_ActiveWithinAdmitted ==
    /\ activeConnections <= TotalAdmitted(connections)
    /\ activeConnections >= 0
    /\ \A key \in Keys :
          Cardinality({h \in Counted : ClientKey(remote[h]) = key})
              <= Count(connections, key)
    /\ \A h \in Handlers : released[h] >= 1 => h \notin Counted
C37_Witness ==
    \E h \in Handlers : \E g \in Handlers \ {h} :
        /\ hpc[h] = "read"
        /\ hpc[g] = "release" /\ exit[g] = "loop" /\ released[g] = 0
        /\ activeConnections = 1
        /\ TotalAdmitted(connections) = 2

\* The recorded timestamp of a kind.
Stamp(s, k) == IF k = "outbound" THEN s.lastPing ELSE s.lastClientPing

\* C11 (SpecRateLimit): after any sequence of observations the violation counter
\* of each kind is the number of observations in a row, up to the latest, that
\* each came less than minPingInterval after the observation of that kind before
\* it (0 after one that came at or after minPingInterval), and it is never
\* negative.
C11_CounterCountsEarlyRun ==
    \A k \in Kinds :
        /\ Counter(cs, k) >= 0
        /\ Counter(cs, k) = expected[k]

\* C12 (SpecRateLimit): the latest observation of a kind returned false exactly
\* when it was too early and its increment took the counter above maxViolations;
\* a too-early observation that left the counter at most maxViolations returned
\* true with its violation recorded, one that was not too early returned true
\* and left the counter at 0.
C12_RejectAboveMaxViolations ==
    \A k \in Kinds :
        obsRet[k] # "none" =>
            /\ (obsRet[k] = "false") <=> (obsEarly[k] /\ Counter(cs, k) > maxViolations)
            /\ (obsEarly[k] /\ Counter(cs, k) <= maxViolations) =>
                   (obsRet[k] = "true" /\ Counter(cs, k) >= 1)
            /\ ~obsEarly[k] => (obsRet[k] = "true" /\ Counter(cs, k) = 0)

\* The (maxViolations + 1)-th too-early outbound observation in a row has just
\* returned false, the one before it true.
C12_Witness ==
    /\ obsRet["outbound"] = "false"
    /\ obsPrev["outbound"] = "true"
    /\ obsEarly["outbound"]
    /\ cs.violations = maxViolations + 1

\* C13 (SpecRateLimit): the first observation of a kind has returned true, has
\* set the timestamp of its kind to its own clock reading, and has left the
\* violation counter of its kind at 0.
C13_FirstObservationFree ==
    \A k \in Kinds :
        (obsRet[k] # "none" /\ obsPrev[k] = "none") =>
            /\ obsRet[k] = "true"
            /\ Stamp(cs, k) = obsAt[k]
            /\ Counter(cs, k) = 0

\* C10 as claimed (SpecRateLimit): once an observation of a kind has returned
\* false, the latest observation of that kind has returned false too and the
\* counter of the kind is still above maxViolations.
C10_RejectIsPermanent ==
    \A k \in Kinds :
        rejected[k] => (obsRet[k] = "false" /\ Counter(cs, k) > maxViolations)

\* C10 as amended (SpecRateLimit): the observation that follows a rejected one
\* is rejected too, with the counter above maxViolations, when it comes less
\* than minPingInterval after the recorded timestamp of its kind; when it comes
\* at or after minPingInterval it returns true and has reset the counter to 0.
C10_RejectLastsUntilPause ==
    \A k \in Kinds :
        obsPrev[k] = "false" =>
            IF obsEarly[k]
            THEN obsRet[k] = "false" /\ Counter(cs, k) > maxViolations
            ELSE obsRet[k] = "true" /\ Counter(cs, k) = 0

\* An inbound observation was rejected and the next one, after a pause of
\* minPingInterval, was accepted with the counter back at 0.
C10_Witness ==
    /\ obsPrev["inbound"] = "false"
    /\ ~obsEarly["inbound"]
    /\ obsRet["inbound"] = "true"
    /\ rejected["inbound"]

====
